---- MODULE Spec2Model ----
(***************************************************************************)
(* A model of the context-sherpa MCP server (internal/mcp/server.go):      *)
(* the community rule index cache, the community rule search, and the      *)
(* import of a community rule into the rule directory.                     *)
(*                                                                         *)
(* Strings are sequences of one-character strings, so that lower-casing,   *)
(* trimming, splitting and substring search are computed, not assumed.     *)
(***************************************************************************)
EXTENDS Integers, Sequences, FiniteSets, TLC

(***************************************************************************)
(* Strings                                                                 *)
(***************************************************************************)
UpperChars == <<"A","B","C","D","E","F","G","H","I","J","K","L","M","N","O","P","Q","R","S","T","U","V","W","X","Y","Z">>

LowerChars == <<"a","b","c","d","e","f","g","h","i","j","k","l","m","n","o","p","q","r","s","t","u","v","w","x","y","z">>

\* unicode.ToLower on one character
ToLowerChar(c) ==
    IF \E i \in 1..Len(UpperChars) : UpperChars[i] = c
    THEN LowerChars[CHOOSE i \in 1..Len(UpperChars) : UpperChars[i] = c]
    ELSE c

\* strings.ToLower
ToLower(s) == [i \in 1..Len(s) |-> ToLowerChar(s[i])]

\* strings.Contains(s, sub)
Contains(s, sub) ==
    \E i \in 0..(Len(s) - Len(sub)) : SubSeq(s, i + 1, i + Len(sub)) = sub

\* the cutset of strings.TrimSpace restricted to the characters of the model
IsSpace(c) == c = " "

\* strings.TrimSpace
RECURSIVE TrimLeft(_)
TrimLeft(s) ==
    IF s # <<>> /\ IsSpace(Head(s)) THEN TrimLeft(Tail(s)) ELSE s

RECURSIVE TrimRight(_)
TrimRight(s) ==
    IF s # <<>> /\ IsSpace(s[Len(s)]) THEN TrimRight(SubSeq(s, 1, Len(s) - 1)) ELSE s

TrimSpace(s) == TrimRight(TrimLeft(s))

\* strings.Split(s, sep) for a one-character separator: always at least one
\* piece, empty pieces kept
RECURSIVE SplitFrom(_, _, _)
SplitFrom(s, sep, cur) ==
    IF s = <<>> THEN <<cur>>
    ELSE IF Head(s) = sep THEN <<cur>> \o SplitFrom(Tail(s), sep, <<>>)
    ELSE SplitFrom(Tail(s), sep, Append(cur, Head(s)))

Split(s, sep) == SplitFrom(s, sep, <<>>)

(***************************************************************************)
(* The community rule index documents served by the registry               *)
(***************************************************************************)
\* the three-rule fixture of the tests
createTestRules ==
  <<[id |-> <<"a","s","t","-","g","r","e","p","-","g","o","-","s","q","l","-","i","n","j","e","c","t","i","o","n">>,
     tool |-> <<"a","s","t","-","g","r","e","p">>,
     path |-> <<"a","s","t","-","g","r","e","p","/","r","u","l","e","s","/","g","o","/","s","e","c","u","r","i","t","y","/","s","q","l","-","i","n","j","e","c","t","i","o","n",".","y","m","l">>,
     language |-> <<"g","o">>,
     author |-> <<"t","e","s","t","-","a","u","t","h","o","r">>,
     tags |-> <<<<"s","e","c","u","r","i","t","y">>, <<"s","q","l">>, <<"d","a","t","a","b","a","s","e">>, <<"i","n","j","e","c","t","i","o","n">>>>,
     description |-> <<"D","e","t","e","c","t","s"," ","t","h","e"," ","u","s","e"," ","o","f"," ","s","t","r","i","n","g"," ","f","o","r","m","a","t","t","i","n","g"," ","f","u","n","c","t","i","o","n","s"," ","l","i","k","e"," ","f","m","t",".","S","p","r","i","n","t","f"," ","i","n","s","i","d","e"," ","d","a","t","a","b","a","s","e"," ","c","a","l","l","s",","," ","w","h","i","c","h"," ","i","s"," ","a"," ","c","o","m","m","o","n"," ","S","Q","L"," ","i","n","j","e","c","t","i","o","n"," ","v","e","c","t","o","r",".">>],
    [id |-> <<"a","s","t","-","g","r","e","p","-","g","o","-","u","n","c","h","e","c","k","e","d","-","e","r","r","o","r">>,
     tool |-> <<"a","s","t","-","g","r","e","p">>,
     path |-> <<"a","s","t","-","g","r","e","p","/","r","u","l","e","s","/","g","o","/","c","o","r","r","e","c","t","n","e","s","s","/","u","n","c","h","e","c","k","e","d","-","e","r","r","o","r",".","y","m","l">>,
     language |-> <<"g","o">>,
     author |-> <<"t","e","s","t","-","a","u","t","h","o","r">>,
     tags |-> <<<<"c","o","r","r","e","c","t","n","e","s","s">>, <<"e","r","r","o","r","-","h","a","n","d","l","i","n","g">>, <<"b","u","g","-","r","i","s","k">>>>,
     description |-> <<"F","i","n","d","s"," ","f","u","n","c","t","i","o","n"," ","c","a","l","l","s"," ","t","h","a","t"," ","r","e","t","u","r","n"," ","a","n"," ","e","r","r","o","r"," ","a","s"," ","t","h","e","i","r"," ","f","i","n","a","l"," ","a","r","g","u","m","e","n","t"," ","b","u","t"," ","t","h","e"," ","e","r","r","o","r"," ","i","s"," ","n","o","t"," ","a","s","s","i","g","n","e","d"," ","o","r"," ","c","h","e","c","k","e","d",".">>],
    [id |-> <<"a","s","t","-","g","r","e","p","-","p","y","t","h","o","n","-","s","q","l","-","i","n","j","e","c","t","i","o","n">>,
     tool |-> <<"a","s","t","-","g","r","e","p">>,
     path |-> <<"a","s","t","-","g","r","e","p","/","r","u","l","e","s","/","p","y","t","h","o","n","/","s","e","c","u","r","i","t","y","/","s","q","l","-","i","n","j","e","c","t","i","o","n",".","y","m","l">>,
     language |-> <<"p","y","t","h","o","n">>,
     author |-> <<"t","e","s","t","-","a","u","t","h","o","r">>,
     tags |-> <<<<"s","e","c","u","r","i","t","y">>, <<"s","q","l">>, <<"d","a","t","a","b","a","s","e">>>>,
     description |-> <<"D","e","t","e","c","t","s"," ","S","Q","L"," ","i","n","j","e","c","t","i","o","n"," ","v","u","l","n","e","r","a","b","i","l","i","t","i","e","s"," ","i","n"," ","P","y","t","h","o","n"," ","c","o","d","e",".">>]>>

\* an index whose stored languages and tags differ in case from one another,
\* with a tag that is a proper substring of another and a rule without tags
mixedCaseRules ==
  <<[id |-> <<"x","1">>,
     tool |-> <<"a","s","t","-","g","r","e","p">>,
     path |-> <<"r","/","x","1",".","y","m","l">>,
     language |-> <<"G","o">>,
     author |-> <<"a">>,
     tags |-> <<<<"A">>, <<"a","b">>>>,
     description |-> <<"q">>],
    [id |-> <<"x","2">>,
     tool |-> <<"a","s","t","-","g","r","e","p">>,
     path |-> <<"r","/","x","2",".","y","m","l">>,
     language |-> <<"g","o">>,
     author |-> <<"a">>,
     tags |-> <<<<"a","b">>>>,
     description |-> <<"A","b"," ","x">>],
    [id |-> <<"a","b">>,
     tool |-> <<"a","s","t","-","g","r","e","p">>,
     path |-> <<"r","/","a","b",".","y","m","l">>,
     language |-> <<"p","y">>,
     author |-> <<"a">>,
     tags |-> <<<<"a">>, <<"b">>, <<"B","a">>>>,
     description |-> <<"a","b">>],
    [id |-> <<"x","4">>,
     tool |-> <<"a","s","t","-","g","r","e","p">>,
     path |-> <<"r","/","x","4",".","y","m","l">>,
     language |-> <<"g","o">>,
     author |-> <<"a">>,
     tags |-> <<>>,
     description |-> <<>>]>>

\* the documents the registry may serve for index.json: two early versions
\* of the mixed-case index with one and two rules, the three-rule fixture,
\* and the whole mixed-case index
RegistryIndex(v) ==
    IF v <= 2 THEN [version |-> v, rules |-> SubSeq(mixedCaseRules, 1, v)]
    ELSE IF v = 3 THEN [version |-> v, rules |-> createTestRules]
    ELSE [version |-> v, rules |-> mixedCaseRules]

\* the documents served while the cache is exercised by concurrent callers
Versions == {1, 2}

\* the documents served to the search and import handlers
HandlerVersions == {3, 4}

(***************************************************************************)
(* Bounds                                                                  *)
(***************************************************************************)
NProcs == 2         \* concurrent callers of fetchCommunityRuleIndex
MaxTime == 5        \* the clock runs from 0 to MaxTime minutes
MaxFetches == 2     \* index documents decoded over one behaviour

Procs == 1..NProcs

(***************************************************************************)
(* State                                                                   *)
(***************************************************************************)
VARIABLES
    now,                 \* the clock read by time.Now / time.Since, in minutes
    heap,                \* the CommunityRuleIndex objects allocated so far
    communityRuleCache,  \* *CommunityRuleIndex: 0 is nil, n > 0 is heap[n]
    cacheTimestamp,      \* time.Time of the last cache update
    pc,                  \* position of each caller in fetchCommunityRuleIndex
    index,               \* each caller's local `index` (pointer into heap)
    result,              \* what each caller's last call returned
    tsOwner,             \* the `index` of the call that stored cacheTimestamp
    reqs,                \* HTTP GETs issued by each caller's current call
    atCall,              \* cache, timestamp and clock when the call began
    sPc,                 \* search_community_rules: "ready" or "done"
    sArgs,               \* the arguments of the search request
    sOut,                \* the outcome of the search request
    iPc,                 \* import_community_rule: "ready" or "done"
    iArgs,               \* the arguments of the import request
    iResp,               \* what the registry sent for the rule file
    iOut,                \* the outcome of the import request
    sgconfig,            \* the sgconfig.yml found from the start directory
    ruleFiles,           \* the rule directory: a set of [name, content] files
    fsys,                \* the file tree: a set of [path, kind, size] entries
    cwd,                 \* the working directory of the server process
    projectRootOverride, \* the --projectRoot argument, <<>> when not given
    tmpDir,              \* the names of the files in os.TempDir()
    scanPc,              \* scan_code and scan_path: "ready" or "done"
    scanArgs,            \* the arguments of the scan request
    scanOut,             \* the outcome of the scan request
    uPc,                 \* a direct call of a helper: "ready" or "done"
    uArgs,               \* the arguments of the direct call
    uOut,                \* what the direct call returned
    hPc,                 \* the four other tools: "ready" or "done"
    hArgs,               \* the tool requested and its arguments
    hResp,               \* what the registry sent for the rule file
    hOut                 \* the outcome of the request

searchVars == <<sPc, sArgs, sOut>>

importVars == <<iPc, iArgs, iResp, iOut>>

\* the project on disk
diskVars == <<sgconfig, ruleFiles>>

\* the files scanned, the scan handlers and the helpers called directly
scanVars == <<fsys, cwd, projectRootOverride, tmpDir, scanPc, scanArgs, scanOut,
              uPc, uArgs, uOut>>

\* add_or_update_rule, remove_rule, initialize_ast_grep and
\* get_community_rule_details
ruleVars == <<hPc, hArgs, hResp, hOut>>

\* the variables fetchCommunityRuleIndex never touches
nonFetchVars == <<searchVars, importVars, diskVars, scanVars, ruleVars>>

\* the locals of the callers of fetchCommunityRuleIndex
callerVars == <<pc, index, result, reqs, atCall>>

vars == <<now, heap, communityRuleCache, cacheTimestamp, pc, index,
          result, tsOwner, reqs, atCall, searchVars, importVars, diskVars,
          scanVars, ruleVars>>

\* minutes
cacheTTL == 5

\* the zero time.Time: further in the past than any TTL
ZeroTime == 0 - cacheTTL

NoResult == [index |-> 0, err |-> "nocall"]

\* req.Params.Arguments: a JSON object, absent, or another JSON value
ArgumentKinds == {"map", "nil", "other"}

RequireString_Unchecked(arguments, has) == TRUE

\* req.RequireString(key) returns no error: the arguments are a map that
\* holds a string under the key
RequireString(arguments, has) == arguments = "map" /\ has

\* req.Params.Arguments.(map[string]interface{}) does not panic
IsMap(arguments) == arguments = "map"

NoArgs ==
    [arguments |-> "map", hasQuery |-> FALSE, query |-> <<>>, language |-> <<>>,
     tags |-> <<>>]

\* every handler returns a result and a Go error: err is "nil" for the nil
\* error, "panic" when the handler panics and returns nothing
NoOut == [isError |-> FALSE, from |-> 0, rules |-> <<>>, err |-> "nil"]

\* mcp.NewToolResultError(...), nil
SearchError == [isError |-> TRUE, from |-> 0, rules |-> <<>>, err |-> "nil"]

SearchPanic == [isError |-> FALSE, from |-> 0, rules |-> <<>>, err |-> "panic"]

\* no caller is inside fetchCommunityRuleIndex
CallersIdle ==
    /\ pc = [p \in Procs |-> "idle"]
    /\ index = [p \in Procs |-> 0]
    /\ result = [p \in Procs |-> NoResult]
    /\ reqs = [p \in Procs |-> 0]
    /\ atCall = [p \in Procs |-> [cache |-> 0, snap |-> <<>>, ts |-> ZeroTime, now |-> 0]]

\* no search request has been made
SearchIdle ==
    /\ sPc = "ready"
    /\ sArgs = NoArgs
    /\ sOut = NoOut

NoResp == [status |-> 0, declared |-> FALSE, body |-> <<>>]

NoImport ==
    [isError |-> FALSE, msg |-> "none", content |-> <<>>, file |-> <<>>, err |-> "nil"]

\* no import request has been made
ImportIdle ==
    /\ iPc = "ready"
    /\ iArgs = [hasId |-> FALSE, ruleId |-> <<>>]
    /\ iResp = NoResp
    /\ iOut = NoImport

\* an initialized project with an empty rule directory
DiskIdle ==
    /\ sgconfig = "ok"
    /\ ruleFiles = {}

(***************************************************************************)
(* Paths and the file tree                                                 *)
(*                                                                         *)
(* A path is the sequence of its components, each a sequence of            *)
(* characters: an absolute path starts with the component "/", the path    *)
(* "." is the one component ".", and <<>> is the empty string.             *)
(***************************************************************************)
SLASH == <<"/">>

DOT == <<".">>

SGCONFIG == <<"s", "g", "c", "o", "n", "f", "i", "g", ".", "y", "m", "l">>

IsAbs(path) == path # <<>> /\ path[1] = SLASH

\* filepath.Join(dir, name)
Join(dir, name) == IF dir = <<>> \/ dir = <<DOT>> THEN <<name>> ELSE dir \o <<name>>

\* filepath.Dir(dir)
Dir(dir) ==
    IF dir = <<>> THEN <<DOT>>
    ELSE IF Len(dir) = 1 THEN (IF dir[1] = SLASH THEN dir ELSE <<DOT>>)
    ELSE SubSeq(dir, 1, Len(dir) - 1)

\* the file a path denotes for a process or subprocess working in wd
Abs(wd, path) ==
    IF IsAbs(path) THEN path
    ELSE IF path = <<DOT>> THEN wd
    ELSE wd \o path

\* a directory
DirEntry(path) == [path |-> path, kind |-> "dir", size |-> 0]

\* a directory the server may not read
LockedEntry(path) == [path |-> path, kind |-> "locked", size |-> 0]

FileEntry(path, size) == [path |-> path, kind |-> "file", size |-> size]

\* info.IsDir()
IsDir(info) == info.kind # "file"

\* os.Stat(path) returns no error
Exists(fs, wd, path) == path # <<>> /\ \E e \in fs : e.path = Abs(wd, path)

\* the os.FileInfo of an existing path
Stat(fs, wd, path) == CHOOSE e \in fs : e.path = Abs(wd, path)

(***************************************************************************)
(* findProjectRoot                                                         *)
(***************************************************************************)
\* the for loop: stat dir/sgconfig.yml, else move to the parent directory
\* until filepath.Dir returns its argument
RECURSIVE WalkUp(_, _, _)
WalkUp(fs, wd, dir) ==
    IF Exists(fs, wd, Join(dir, SGCONFIG)) THEN [dir |-> dir, err |-> "none"]
    ELSE IF Dir(dir) = dir THEN [dir |-> <<>>, err |-> "notfound"]
    ELSE WalkUp(fs, wd, Dir(dir))

findProjectRoot(fs, wd, override) ==
    WalkUp(fs, wd, IF override # <<>> THEN override ELSE wd)

\* the directories below "/" of the trees the walk is tried on
DirNames == << <<"p">>, <<"s">>, <<"t">>, <<"u">>, <<"v">> >>

MaxDepth == 3

\* the directory n levels below "/"
Chain(n) == <<SLASH>> \o SubSeq(DirNames, 1, n)

ChainDirs == {Chain(n) : n \in 0..MaxDepth}

\* one chain of directories, any of them holding an sgconfig.yml
RootTrees ==
    {{DirEntry(d) : d \in ChainDirs} \cup
     {FileEntry(Join(d, SGCONFIG), 40) : d \in M} : M \in SUBSET ChainDirs}

\* --projectRoot: not given, ".", a directory of the chain, or the name of one
Overrides ==
    {<<>>, <<DOT>>} \cup ChainDirs \cup {<<DirNames[n]>> : n \in 1..MaxDepth}

\* an initialized project in /p, the server started in it
ProjectTree ==
    {DirEntry(Chain(0)), DirEntry(Chain(1)), FileEntry(Join(Chain(1), SGCONFIG), 40)}

NoScanArgs == [tool |-> "none"]

\* no subprocess was started
NoEngine ==
    [ran |-> FALSE, dir |-> <<>>, config |-> <<>>, targets |-> <<>>,
     launched |-> FALSE, status |-> 0, output |-> ""]

NoScanOut ==
    [isError |-> FALSE, msg |-> "none", text |-> "", files |-> <<>>,
     validFiles |-> <<>>, skippedFiles |-> <<>>, statFailed |-> <<>>,
     engine |-> NoEngine, err |-> "nil"]

\* no scan request and no direct call has been made
ScanIdle ==
    /\ tmpDir = {}
    /\ scanPc = "ready"
    /\ scanArgs = NoScanArgs
    /\ scanOut = NoScanOut
    /\ uPc = "ready"
    /\ uArgs = <<>>
    /\ uOut = <<>>

NoRuleOut == [isError |-> FALSE, msg |-> "none", content |-> <<>>, err |-> "nil"]

\* none of the four other tools has been requested
RuleIdle ==
    /\ hPc = "ready"
    /\ hArgs = [tool |-> "none"]
    /\ hResp = NoResp
    /\ hOut = NoRuleOut

\* the project the cache, search and import are exercised in
ProjectIdle ==
    /\ fsys = ProjectTree
    /\ cwd = Chain(1)
    /\ projectRootOverride = <<>>

FetchInit ==
    /\ now = 0
    /\ heap = <<>>
    /\ communityRuleCache = 0
    /\ cacheTimestamp = ZeroTime
    /\ tsOwner = 0
    /\ CallersIdle
    /\ SearchIdle
    /\ ImportIdle
    /\ ScanIdle
    /\ RuleIdle
    /\ ProjectIdle
    /\ DiskIdle

(***************************************************************************)
(* fetchCommunityRuleIndex                                                 *)
(***************************************************************************)
\* the comparison turned round
CacheValid_Inverted(cache, ts, t) == cache # 0 /\ t - ts > cacheTTL

\* communityRuleCache != nil && time.Since(cacheTimestamp) < cacheTTL
CacheValid(cache, ts, t) == cache # 0 /\ t - ts < cacheTTL

\* the object behind a pointer: <<>> for nil, <<object>> otherwise
Deref(h, ptr) == IF ptr = 0 THEN <<>> ELSE <<h[ptr]>>

InFlight == Cardinality({q \in Procs : pc[q] \in {"get", "resp"}})

\* entry and the cache check
FetchCall(p) ==
    /\ pc[p] = "idle"
    /\ reqs' = [reqs EXCEPT ![p] = 0]
    /\ index' = [index EXCEPT ![p] = 0]
    /\ result' = [result EXCEPT ![p] = NoResult]
    /\ IF CacheValid(communityRuleCache, cacheTimestamp, now)
       THEN pc' = [pc EXCEPT ![p] = "cached"]
       ELSE /\ Len(heap) + InFlight < MaxFetches
            /\ pc' = [pc EXCEPT ![p] = "get"]
    /\ UNCHANGED <<now, heap, communityRuleCache, cacheTimestamp, tsOwner, nonFetchVars>>

\* the same call, observed: the shared state at entry is remembered
FetchCallObserved(p) ==
    /\ FetchCall(p)
    /\ atCall' = [atCall EXCEPT ![p] = [cache |-> communityRuleCache,
                                        snap |-> Deref(heap, communityRuleCache),
                                        ts |-> cacheTimestamp, now |-> now]]

\* return communityRuleCache, nil
FetchCached(p) ==
    /\ pc[p] = "cached"
    /\ result' = [result EXCEPT ![p] = [index |-> communityRuleCache, err |-> "none"]]
    /\ pc' = [pc EXCEPT ![p] = "idle"]
    /\ UNCHANGED <<now, heap, communityRuleCache, cacheTimestamp, index, tsOwner, reqs, atCall, nonFetchVars>>

\* http.Get(getCommunityRulesRepoURL()): the request goes out
FetchGet(p) ==
    /\ pc[p] = "get"
    /\ reqs' = [reqs EXCEPT ![p] = @ + 1]
    /\ pc' = [pc EXCEPT ![p] = "resp"]
    /\ UNCHANGED <<now, heap, communityRuleCache, cacheTimestamp, index, result, tsOwner, atCall, nonFetchVars>>

FetchErrors == {"transport", "status", "parse"}

\* an error return that also drops the cached index
FetchFail_ClearsCache(p) ==
    /\ pc[p] = "resp"
    /\ \E e \in {"transport", "status", "parse"} :
          result' = [result EXCEPT ![p] = [index |-> 0, err |-> e]]
    /\ pc' = [pc EXCEPT ![p] = "idle"]
    /\ communityRuleCache' = 0
    /\ UNCHANGED <<now, heap, cacheTimestamp, index, tsOwner, reqs, atCall, nonFetchVars>>

\* the three error returns: http.Get failed, status is not 200, the body
\* does not decode
FetchFail(p) ==
    /\ pc[p] = "resp"
    /\ \E e \in FetchErrors :
          result' = [result EXCEPT ![p] = [index |-> 0, err |-> e]]
    /\ pc' = [pc EXCEPT ![p] = "idle"]
    /\ UNCHANGED <<now, heap, communityRuleCache, cacheTimestamp, index, tsOwner, reqs, atCall, nonFetchVars>>

\* var index CommunityRuleIndex; json.NewDecoder(resp.Body).Decode(&index)
FetchDecode(p) ==
    /\ pc[p] = "resp"
    /\ \E v \in Versions : heap' = Append(heap, RegistryIndex(v))
    /\ index' = [index EXCEPT ![p] = Len(heap) + 1]
    /\ pc' = [pc EXCEPT ![p] = "setCache"]
    /\ UNCHANGED <<now, communityRuleCache, cacheTimestamp, result, tsOwner, reqs, atCall, nonFetchVars>>

\* the cached object updated in place, its rules overwritten by the new ones
StoreCache_InPlace(h, cache, new) ==
    IF cache = 0 THEN [heap |-> h, cache |-> new]
    ELSE [heap |-> [h EXCEPT ![cache].rules = h[new].rules], cache |-> cache]

\* communityRuleCache = &index: one pointer store, the objects are untouched
StoreCache(h, cache, new) == [heap |-> h, cache |-> new]

FetchSetCache(p) ==
    /\ pc[p] = "setCache"
    /\ LET s == StoreCache(heap, communityRuleCache, index[p])
       IN /\ heap' = s.heap
          /\ communityRuleCache' = s.cache
    /\ pc' = [pc EXCEPT ![p] = "setTs"]
    /\ UNCHANGED <<now, cacheTimestamp, index, result, tsOwner, reqs, atCall, nonFetchVars>>

\* the timestamp left as it was
FetchSetTimestamp_Forgotten(p) ==
    /\ pc[p] = "setTs"
    /\ result' = [result EXCEPT ![p] = [index |-> index[p], err |-> "none"]]
    /\ pc' = [pc EXCEPT ![p] = "idle"]
    /\ UNCHANGED <<now, heap, communityRuleCache, cacheTimestamp, tsOwner, index,
                   reqs, atCall, nonFetchVars>>

\* cacheTimestamp = time.Now(); return &index, nil
FetchSetTimestamp(p) ==
    /\ pc[p] = "setTs"
    /\ cacheTimestamp' = now
    /\ tsOwner' = index[p]
    /\ result' = [result EXCEPT ![p] = [index |-> index[p], err |-> "none"]]
    /\ pc' = [pc EXCEPT ![p] = "idle"]
    /\ UNCHANGED <<now, heap, communityRuleCache, index, reqs, atCall, nonFetchVars>>

\* searchCommunityRulesHandler after the fetch: an error result when the
\* fetch failed, otherwise results computed from the returned index
HandlerOutcome(r) ==
    IF r.err # "none" THEN [isError |-> TRUE, from |-> 0]
    ELSE [isError |-> FALSE, from |-> r.index]

\* time passes
Tick ==
    /\ now < MaxTime
    /\ now' = now + 1
    /\ UNCHANGED <<heap, communityRuleCache, cacheTimestamp, pc, index, result,
                   tsOwner, reqs, atCall, nonFetchVars>>

FetchStep(p) ==
    \/ FetchCached(p)
    \/ FetchGet(p)
    \/ FetchFail(p)
    \/ FetchDecode(p)
    \/ FetchSetCache(p)
    \/ FetchSetTimestamp(p)

\* callers run concurrently
Next ==
    \/ \E p \in Procs : FetchCall(p) /\ UNCHANGED atCall
    \/ \E p \in Procs : FetchStep(p)
    \/ Tick

Spec == FetchInit /\ [][Next]_vars

\* one caller at a time: a call begins only when no other call is running
SeqFetchCall(p) ==
    /\ \A q \in Procs : pc[q] = "idle"
    /\ FetchCallObserved(p)

SeqNext ==
    \/ \E p \in Procs : SeqFetchCall(p)
    \/ \E p \in Procs : FetchStep(p)
    \/ Tick

SeqSpec == FetchInit /\ [][SeqNext]_vars

(***************************************************************************)
(* fetchCommunityRuleIndex run to completion by one handler                *)
(***************************************************************************)
\* every way one uninterrupted call can end from the current state when the
\* registry serves the documents docs: the value returned and the cache state
\* left behind
FetchAtomic(docs) ==
    IF CacheValid(communityRuleCache, cacheTimestamp, now)
    THEN {[err |-> "none", index |-> communityRuleCache, heap |-> heap,
           cache |-> communityRuleCache, ts |-> cacheTimestamp, owner |-> tsOwner]}
    ELSE {[err |-> e, index |-> 0, heap |-> heap,
           cache |-> communityRuleCache, ts |-> cacheTimestamp, owner |-> tsOwner]
            : e \in FetchErrors}
         \cup
         {LET h == Append(heap, RegistryIndex(v))
              st == StoreCache(h, communityRuleCache, Len(h))
          IN [err |-> "none", index |-> Len(h), heap |-> st.heap,
              cache |-> st.cache, ts |-> now, owner |-> Len(h)]
            : v \in docs}

\* the states a handler can find the cache in: empty, holding a snapshot
\* younger than the TTL, holding one as old as the TTL
CacheStates ==
    {[heap |-> <<>>, cache |-> 0, ts |-> ZeroTime, owner |-> 0, now |-> 0]}
    \cup
    {[heap |-> <<RegistryIndex(v)>>, cache |-> 1, ts |-> 0, owner |-> 1, now |-> t]
        : v \in HandlerVersions, t \in {0, cacheTTL}}

(***************************************************************************)
(* searchCommunityRulesHandler                                             *)
(***************************************************************************)
\* tags = strings.Split(tagsStr, ","), each piece trimmed and lower-cased;
\* no tags when the argument is absent or empty
ParseTags(tagsStr) ==
    IF tagsStr = <<>> THEN <<>>
    ELSE LET pieces == Split(tagsStr, ",")
         IN [i \in 1..Len(pieces) |-> ToLower(TrimSpace(pieces[i]))]

\* a stored tag matches when it contains the required one
TagFound_Substring(ruleTags, requiredTag) ==
    \E i \in 1..Len(ruleTags) : Contains(ToLower(ruleTags[i]), requiredTag)

\* the inner loop: strings.ToLower(ruleTag) == requiredTag
TagFound(ruleTags, requiredTag) ==
    \E i \in 1..Len(ruleTags) : ToLower(ruleTags[i]) = requiredTag

\* the outer loop: hasAllTags
HasAllTags(ruleTags, tags) ==
    \A j \in 1..Len(tags) : TagFound(ruleTags, tags[j])

\* the stored language compared as it is written
PassesFilters_CaseSensitive(rule, language, tags) ==
    /\ ~(language # <<>> /\ rule.language # language)
    /\ Len(tags) > 0 => HasAllTags(rule.tags, tags)

\* a rule reaches `matchingRules = append(matchingRules, rule)`
PassesFilters(rule, language, tags) ==
    /\ ~(language # <<>> /\ ToLower(rule.language) # language)
    /\ Len(tags) > 0 => HasAllTags(rule.tags, tags)

\* the first loop over index.Rules
RECURSIVE FilterLoop(_, _, _)
FilterLoop(rules, language, tags) ==
    IF rules = <<>> THEN <<>>
    ELSE (IF PassesFilters(Head(rules), language, tags) THEN <<Head(rules)>> ELSE <<>>)
         \o FilterLoop(Tail(rules), language, tags)

\* the tag loop without its break
RECURSIVE TagScan_NoBreak(_, _, _)
TagScan_NoBreak(rule, queryLower, i) ==
    IF i > Len(rule.tags) THEN <<>>
    ELSE IF Contains(ToLower(rule.tags[i]), queryLower)
         THEN <<rule>> \o TagScan_NoBreak(rule, queryLower, i + 1)
         ELSE TagScan_NoBreak(rule, queryLower, i + 1)

\* the loop over rule.Tags from tag i on: what it appends to queryMatches
RECURSIVE TagScan(_, _, _)
TagScan(rule, queryLower, i) ==
    IF i > Len(rule.tags) THEN <<>>
    ELSE IF Contains(ToLower(rule.tags[i]), queryLower)
         THEN <<rule>>
         ELSE TagScan(rule, queryLower, i + 1)

\* one iteration of the query loop: what it appends to queryMatches
QueryMatch(rule, queryLower) ==
    IF \/ Contains(ToLower(rule.id), queryLower)
       \/ Contains(ToLower(rule.description), queryLower)
    THEN <<rule>>
    ELSE TagScan(rule, queryLower, 1)

\* the second loop, over matchingRules
RECURSIVE QueryLoop(_, _)
QueryLoop(rules, queryLower) ==
    IF rules = <<>> THEN <<>>
    ELSE QueryMatch(Head(rules), queryLower) \o QueryLoop(Tail(rules), queryLower)

\* matchingRules as it stands before the results are formatted
SearchRules(rules, query, languageArg, tagsArg) ==
    LET language == ToLower(languageArg)
        tags == ParseTags(tagsArg)
        matchingRules == FilterLoop(rules, language, tags)
    IN IF query # <<>> THEN QueryLoop(matchingRules, ToLower(query))
       ELSE matchingRules

\* argument values taken from the tests
QSQLINJ == <<"s","q","l"," ","i","n","j","e","c","t","i","o","n">>

QERR == <<"E","r","r","o","r">>

LGO == <<"g","o">>

LGOUP == <<"G","O">>

LG == <<"g">>

LPY == <<"p","y">>

LPYTHON == <<"p","y","t","h","o","n">>

TSECDB == <<"s","e","c","u","r","i","t","y",",","d","a","t","a","b","a","s","e">>

TSECDBUP == <<"S","e","c","u","r","i","t","y",","," ","D","A","T","A","B","A","S","E">>

TSEC == <<"s","e","c">>

TAB == <<"a",","," ","B"," ">>

\* the arguments the search is exercised with
QueryChars == {"a", "B"}

TagChars == {"A", ",", " "}

MaxQueryLen == 2

MaxTagsLen == 3

StringsUpTo(chars, n) == UNION {[1..k -> chars] : k \in 0..n}

Queries ==
    StringsUpTo(QueryChars, MaxQueryLen)
    \cup {QSQLINJ, QERR}

Languages == {<<>>, LGO, LGOUP, LG, LPY, LPYTHON}

TagArgs ==
    StringsUpTo(TagChars, MaxTagsLen)
    \cup {TSECDB, TSECDBUP, TSEC, TAB}

SearchInit ==
    /\ \E c \in CacheStates :
          /\ heap = c.heap
          /\ communityRuleCache = c.cache
          /\ cacheTimestamp = c.ts
          /\ tsOwner = c.owner
          /\ now = c.now
    /\ CallersIdle
    /\ SearchIdle
    /\ ImportIdle
    /\ ScanIdle
    /\ RuleIdle
    /\ ProjectIdle
    /\ DiskIdle

\* a request without the required "query" argument
SearchMissingQuery ==
    /\ sPc = "ready"
    /\ \E a \in ArgumentKinds :
          /\ ~RequireString(a, FALSE)
          /\ sArgs' = [NoArgs EXCEPT !.arguments = a]
    /\ sOut' = SearchError
    /\ sPc' = "done"
    /\ UNCHANGED <<now, heap, communityRuleCache, cacheTimestamp, tsOwner, callerVars, scanVars, ruleVars,
                   importVars, diskVars>>

\* a request whose index fetch fails; the optional parameters are read
\* from the arguments, asserted to be a map, before the fetch
SearchFetchFails ==
    /\ sPc = "ready"
    /\ \E a \in ArgumentKinds, q \in Queries, l \in Languages, t \in TagArgs :
          /\ RequireString(a, TRUE)
          /\ sArgs' = [arguments |-> a, hasQuery |-> TRUE, query |-> q,
                       language |-> l, tags |-> t]
          /\ IF ~IsMap(a)
             THEN /\ sOut' = SearchPanic
                  /\ UNCHANGED <<heap, communityRuleCache, cacheTimestamp, tsOwner>>
             ELSE /\ \E f \in FetchAtomic(HandlerVersions) :
                        /\ f.err # "none"
                        /\ heap' = f.heap
                        /\ communityRuleCache' = f.cache
                        /\ cacheTimestamp' = f.ts
                        /\ tsOwner' = f.owner
                  /\ sOut' = SearchError
    /\ sPc' = "done"
    /\ UNCHANGED <<now, callerVars, scanVars, ruleVars, importVars, diskVars>>

\* a request answered from the index the fetch returned
SearchAnswers ==
    /\ sPc = "ready"
    /\ \E a \in ArgumentKinds, q \in Queries, l \in Languages, t \in TagArgs :
          /\ RequireString(a, TRUE)
          /\ sArgs' = [arguments |-> a, hasQuery |-> TRUE, query |-> q,
                       language |-> l, tags |-> t]
          /\ IF ~IsMap(a)
             THEN /\ sOut' = SearchPanic
                  /\ UNCHANGED <<heap, communityRuleCache, cacheTimestamp, tsOwner>>
             ELSE \E f \in FetchAtomic(HandlerVersions) :
                     /\ f.err = "none"
                     /\ heap' = f.heap
                     /\ communityRuleCache' = f.cache
                     /\ cacheTimestamp' = f.ts
                     /\ tsOwner' = f.owner
                     /\ sOut' = [isError |-> FALSE, from |-> f.index,
                                 rules |-> SearchRules(f.heap[f.index].rules, q, l, t),
                                 err |-> "nil"]
    /\ sPc' = "done"
    /\ UNCHANGED <<now, callerVars, scanVars, ruleVars, importVars, diskVars>>

SearchNext ==
    \/ SearchMissingQuery
    \/ SearchFetchFails
    \/ SearchAnswers

SearchSpec == SearchInit /\ [][SearchNext]_vars

(***************************************************************************)
(* Rule files                                                              *)
(*                                                                         *)
(* A rule file is a sequence of bytes; the model writes one character for  *)
(* each YAML line it distinguishes:                                        *)
(*     "I"  id: some-rule          "i"  id: ""                             *)
(*     "L"  language: go           "l"  language: ""                       *)
(*     "R"  rule: {pattern: x}     "["  a flow sequence never closed       *)
(*     "0"  the NUL byte                                                   *)
(***************************************************************************)
BodyChars == {"I", "i", "L", "l", "R", "["}

NUL == "0"

MaxBodyLen == 3

Bodies == StringsUpTo(BodyChars, MaxBodyLen)

Min(a, b) == IF a <= b THEN a ELSE b

Count(content, chars) == Cardinality({i \in 1..Len(content) : content[i] \in chars})

\* yaml.Unmarshal([]byte(yamlContent), &rule) returns no error: the reader
\* rejects control characters, the parser rejects an unclosed flow sequence,
\* the decoder rejects a mapping key given twice
YamlUnmarshals(content) ==
    /\ \A i \in 1..Len(content) : content[i] \notin {"[", NUL}
    /\ Count(content, {"I", "i"}) <= 1
    /\ Count(content, {"L", "l"}) <= 1
    /\ Count(content, {"R"}) <= 1

\* rule.ID != "" and rule.Language != "" after the unmarshal
RuleHasID(content) == \E i \in 1..Len(content) : content[i] = "I"

RuleHasLanguage(content) == \E i \in 1..Len(content) : content[i] = "L"

\* validateAstGrepRule: "ok", or which of its three errors it returns
validateAstGrepRule(yamlContent) ==
    IF ~YamlUnmarshals(yamlContent) THEN "parse"
    ELSE IF ~RuleHasID(yamlContent) THEN "id"
    ELSE IF ~RuleHasLanguage(yamlContent) THEN "language"
    ELSE "ok"

\* resp.ContentLength: the declared length, -1 when none is declared
ContentLength(resp) == IF resp.declared THEN Len(resp.body) ELSE 0 - 1

\* make([]byte, n)
MakeBytes(n) == [i \in 1..n |-> NUL]

chunkSize == 1024

\* the read loop: chunks of at most chunkSize bytes appended to buf until EOF
RECURSIVE ReadChunks(_, _)
ReadChunks(rest, buf) ==
    IF rest = <<>> THEN buf
    ELSE LET n == Min(chunkSize, Len(rest))
         IN ReadChunks(SubSeq(rest, n + 1, Len(rest)), buf \o SubSeq(rest, 1, n))

\* buf as it stands at `yamlContent := string(buf)`
ReadBody(resp) ==
    IF ContentLength(resp) > 0 THEN MakeBytes(ContentLength(resp))
    ELSE ReadChunks(resp.body, <<>>)

(***************************************************************************)
(* getRuleDir                                                              *)
(***************************************************************************)
ConfigStates == {"absent", "unreadable", "malformed", "noRuleDirs", "ok"}

\* the error getRuleDir returns for a state of sgconfig.yml, "none" when it
\* returns the rule directory
getRuleDir(cfg) ==
    CASE cfg = "absent" -> "notfound"
      [] cfg = "unreadable" -> "read"
      [] cfg = "malformed" -> "parse"
      [] cfg = "noRuleDirs" -> "noRuleDirs"
      [] OTHER -> "none"

\* a write that leaves an existing file as it is
WriteFile_CreateOnly(files, name, content) ==
    IF \E f \in files : f.name = name
      THEN files
      ELSE files \cup {[name |-> name, content |-> content]}

\* os.WriteFile(ruleFile, content): create or overwrite
WriteFile(files, name, content) ==
    {f \in files : f.name # name} \cup {[name |-> name, content |-> content]}

(***************************************************************************)
(* importCommunityRuleHandler                                              *)
(***************************************************************************)
\* the first rule of the index with this id, 0 when there is none
FindRule(rules, ruleID) ==
    IF \E i \in 1..Len(rules) : rules[i].id = ruleID
    THEN CHOOSE i \in 1..Len(rules) :
            /\ rules[i].id = ruleID
            /\ \A j \in 1..(i - 1) : rules[j].id # ruleID
    ELSE 0

\* pathParts[len(pathParts)-1]
FileName(path) == LET pathParts == Split(path, "/") IN pathParts[Len(pathParts)]

\* the cache as the index fetch of a handler leaves it
ApplyFetch(f) ==
    /\ heap' = f.heap
    /\ communityRuleCache' = f.cache
    /\ cacheTimestamp' = f.ts
    /\ tsOwner' = f.owner

ImportError(msg) == [NoImport EXCEPT !.isError = TRUE, !.msg = msg]

ImportText(msg) == [NoImport EXCEPT !.msg = msg]

\* the rule ids import is asked for
RuleIDs == {createTestRules[1].id, createTestRules[3].id, mixedCaseRules[1].id, <<"n", "o">>}

\* the fetches that succeed and return an index holding the rule
FetchesFinding(ruleID) ==
    {f \in FetchAtomic(HandlerVersions) :
        f.err = "none" /\ FindRule(f.heap[f.index].rules, ruleID) # 0}

\* the responses with status 200 the registry may send for a rule file
RuleResponses ==
    {[status |-> 200, declared |-> d, body |-> b] : d \in BOOLEAN, b \in Bodies}

\* a request without the required "rule_id" argument
ImportMissingId ==
    /\ iPc = "ready"
    /\ iArgs' = [hasId |-> FALSE, ruleId |-> <<>>]
    /\ iOut' = ImportError("rule_id")
    /\ iPc' = "done"
    /\ UNCHANGED <<now, heap, communityRuleCache, cacheTimestamp, tsOwner, callerVars, scanVars, ruleVars,
                   searchVars, iResp, diskVars>>

\* the index fetch fails
ImportFetchFails ==
    /\ iPc = "ready"
    /\ \E id \in RuleIDs : iArgs' = [hasId |-> TRUE, ruleId |-> id]
    /\ \E f \in FetchAtomic(HandlerVersions) : f.err # "none" /\ ApplyFetch(f)
    /\ iOut' = ImportError("fetch")
    /\ iPc' = "done"
    /\ UNCHANGED <<now, callerVars, scanVars, ruleVars, searchVars, iResp, diskVars>>

\* the index holds no rule with this id
ImportNotFound ==
    /\ iPc = "ready"
    /\ \E id \in RuleIDs, f \in FetchAtomic(HandlerVersions) :
          /\ f.err = "none"
          /\ FindRule(f.heap[f.index].rules, id) = 0
          /\ iArgs' = [hasId |-> TRUE, ruleId |-> id]
          /\ ApplyFetch(f)
    /\ iOut' = ImportText("notfound")
    /\ iPc' = "done"
    /\ UNCHANGED <<now, callerVars, scanVars, ruleVars, searchVars, iResp, diskVars>>

\* http.Get(ruleURL) fails, or the status is not 200
ImportGetFails ==
    /\ iPc = "ready"
    /\ \E id \in RuleIDs :
          /\ iArgs' = [hasId |-> TRUE, ruleId |-> id]
          /\ \E f \in FetchesFinding(id) : ApplyFetch(f)
    /\ \E st \in {0, 404} :
          /\ iResp' = [status |-> st, declared |-> FALSE, body |-> <<>>]
          /\ iOut' = ImportError(IF st = 0 THEN "transport" ELSE "status")
    /\ iPc' = "done"
    /\ UNCHANGED <<now, callerVars, scanVars, ruleVars, searchVars, diskVars>>

\* resp.Body.Read returns an error other than EOF inside the read loop
ImportReadFails ==
    /\ iPc = "ready"
    /\ \E id \in RuleIDs :
          /\ iArgs' = [hasId |-> TRUE, ruleId |-> id]
          /\ \E f \in FetchesFinding(id) : ApplyFetch(f)
    /\ \E r \in RuleResponses :
          /\ ~(ContentLength(r) > 0)
          /\ iResp' = r
    /\ iOut' = ImportError("read")
    /\ iPc' = "done"
    /\ UNCHANGED <<now, callerVars, scanVars, ruleVars, searchVars, diskVars>>

\* validateAstGrepRule rejects the content
ImportInvalid ==
    /\ iPc = "ready"
    /\ \E id \in RuleIDs :
          /\ iArgs' = [hasId |-> TRUE, ruleId |-> id]
          /\ \E f \in FetchesFinding(id) : ApplyFetch(f)
    /\ \E r \in RuleResponses :
          LET yamlContent == ReadBody(r)
          IN /\ validateAstGrepRule(yamlContent) # "ok"
             /\ iResp' = r
             /\ iOut' = [isError |-> TRUE, msg |-> validateAstGrepRule(yamlContent),
                         content |-> yamlContent, file |-> <<>>, err |-> "nil"]
    /\ iPc' = "done"
    /\ UNCHANGED <<now, callerVars, scanVars, ruleVars, searchVars, diskVars>>

\* the content is valid and getRuleDir fails
ImportNoRuleDir ==
    /\ iPc = "ready"
    /\ getRuleDir(sgconfig) # "none"
    /\ \E id \in RuleIDs :
          /\ iArgs' = [hasId |-> TRUE, ruleId |-> id]
          /\ \E f \in FetchesFinding(id) : ApplyFetch(f)
    /\ \E r \in RuleResponses :
          LET yamlContent == ReadBody(r)
          IN /\ validateAstGrepRule(yamlContent) = "ok"
             /\ iResp' = r
             /\ iOut' = [isError |-> getRuleDir(sgconfig) # "notfound",
                         msg |-> getRuleDir(sgconfig),
                         content |-> yamlContent, file |-> <<>>, err |-> "nil"]
    /\ iPc' = "done"
    /\ UNCHANGED <<now, callerVars, scanVars, ruleVars, searchVars, diskVars>>

\* the content is valid and os.WriteFile fails
ImportWriteFails ==
    /\ iPc = "ready"
    /\ getRuleDir(sgconfig) = "none"
    /\ \E id \in RuleIDs, r \in RuleResponses :
          /\ iArgs' = [hasId |-> TRUE, ruleId |-> id]
          /\ validateAstGrepRule(ReadBody(r)) = "ok"
          /\ iResp' = r
          /\ \E f \in FetchesFinding(id) :
                /\ ApplyFetch(f)
                /\ iOut' = [isError |-> TRUE, msg |-> "write", content |-> ReadBody(r),
                            file |-> FileName(f.heap[f.index].rules[
                                        FindRule(f.heap[f.index].rules, id)].path),
                            err |-> "nil"]
    /\ iPc' = "done"
    /\ UNCHANGED <<now, callerVars, scanVars, ruleVars, searchVars, diskVars>>

\* the content is valid and is written to the rule directory
ImportWrites ==
    /\ iPc = "ready"
    /\ getRuleDir(sgconfig) = "none"
    /\ \E id \in RuleIDs, r \in RuleResponses :
          /\ iArgs' = [hasId |-> TRUE, ruleId |-> id]
          /\ validateAstGrepRule(ReadBody(r)) = "ok"
          /\ iResp' = r
          /\ \E f \in FetchesFinding(id) :
                LET foundRule == f.heap[f.index].rules[FindRule(f.heap[f.index].rules, id)]
                    filename == FileName(foundRule.path)
                IN /\ ApplyFetch(f)
                   /\ ruleFiles' = WriteFile(ruleFiles, filename, ReadBody(r))
                   /\ iOut' = [isError |-> FALSE, msg |-> "imported",
                               content |-> ReadBody(r), file |-> filename,
                               err |-> "nil"]
    /\ iPc' = "done"
    /\ UNCHANGED <<now, callerVars, scanVars, ruleVars, searchVars, sgconfig>>

\* the rule directory holds nothing, or a file with the name an import of
\* the first fixture rule writes to
RuleDirStates ==
    {{}, {[name |-> FileName(createTestRules[1].path), content |-> <<"I", "L", "R">>]}}

ImportInit ==
    /\ \E c \in CacheStates :
          /\ heap = c.heap
          /\ communityRuleCache = c.cache
          /\ cacheTimestamp = c.ts
          /\ tsOwner = c.owner
          /\ now = c.now
    /\ CallersIdle
    /\ SearchIdle
    /\ ImportIdle
    /\ ScanIdle
    /\ RuleIdle
    /\ ProjectIdle
    /\ sgconfig \in ConfigStates
    /\ ruleFiles \in RuleDirStates

ImportNext ==
    \/ ImportMissingId
    \/ ImportFetchFails
    \/ ImportNotFound
    \/ ImportGetFails
    \/ ImportReadFails
    \/ ImportInvalid
    \/ ImportNoRuleDir
    \/ ImportWriteFails
    \/ ImportWrites

ImportSpec == ImportInit /\ [][ImportNext]_vars

\* the number of rule files the imports of a session are followed to
MaxImports == 2

\* after a successful import the server takes the next import request: the
\* last request's arguments and result stay on record until the next import
\* overwrites them
ImportAgain ==
    /\ iPc = "done"
    /\ iOut.msg = "imported"
    /\ Cardinality(ruleFiles) < MaxImports
    /\ iPc' = "ready"
    /\ UNCHANGED <<now, heap, communityRuleCache, cacheTimestamp, tsOwner, callerVars,
                   searchVars, iArgs, iResp, iOut, diskVars, scanVars, ruleVars>>

\* an empty cache and an empty rule directory, in a project with or without
\* its sgconfig.yml
ImportRepeatInit ==
    /\ heap = <<>>
    /\ communityRuleCache = 0
    /\ cacheTimestamp = ZeroTime
    /\ tsOwner = 0
    /\ now = 0
    /\ CallersIdle
    /\ SearchIdle
    /\ ImportIdle
    /\ ScanIdle
    /\ RuleIdle
    /\ ProjectIdle
    /\ sgconfig \in {"ok", "absent"}
    /\ ruleFiles = {}

ImportRepeatNext ==
    \/ ImportNext
    \/ ImportAgain

ImportRepeatSpec == ImportRepeatInit /\ [][ImportRepeatNext]_vars

(***************************************************************************)
(* discoverFiles                                                           *)
(***************************************************************************)
\* the index of the last "." of a name, 0 when it has none
LastDot(name) ==
    IF \E i \in 1..Len(name) : name[i] = "."
    THEN CHOOSE i \in 1..Len(name) :
            name[i] = "." /\ \A j \in (i + 1)..Len(name) : name[j] # "."
    ELSE 0

\* filepath.Ext(path): the suffix of the last component from its last "."
Ext(path) ==
    IF path = <<>> THEN <<>>
    ELSE LET name == path[Len(path)]
         IN IF LastDot(name) = 0 THEN <<>> ELSE SubSeq(name, LastDot(name), Len(name))

matchesLanguage_CaseSensitive(filePath, language) ==
    language = LGO /\ Ext(filePath) = <<".", "g", "o">>

matchesLanguage(filePath, language) ==
    LET ext == ToLower(Ext(filePath))
    IN CASE language = LGO -> ext = <<".", "g", "o">>
         [] language = LPYTHON -> ext = <<".", "p", "y">>
         [] language = <<"j","a","v","a","s","c","r","i","p","t">> -> ext = <<".", "j", "s">>
         [] language = <<"t","y","p","e","s","c","r","i","p","t">> -> ext = <<".", "t", "s">>
         [] language = <<"r","u","s","t">> -> ext = <<".", "r", "s">>
         [] language = <<"j","a","v","a">> -> ext = <<".", "j", "a", "v", "a">>
         [] language \in {<<"c","p","p">>, <<"c","+","+">>} ->
                ext \in {<<".", "c", "p", "p">>, <<".", "c", "c">>, <<".", "c", "x", "x">>}
         [] language = <<"c">> -> ext \in {<<".", "c">>, <<".", "h">>}
         [] OTHER -> FALSE

\* every name of the trees, in the byte order os.ReadDir sorts names in
SortedNames ==
    << <<"E", ".", "G", "O">>, <<"a", ".", "g", "o">>, <<"b", ".", "g", "o">>,
       <<"c", ".", "p", "y">>, <<"d">>, <<"f", ".", "p", "y">>, <<"p">>, <<"s">>,
       SGCONFIG, <<"t">>, <<"u">>, <<"v">>, <<"v", ".", "g", "o">>, <<"w">> >>

\* filepath.Walk(path, fn): the paths fn is called with, in order; the walk
\* calls fn for a directory and then for its entries in name order
RECURSIVE Visited(_, _, _), VisitedFrom(_, _, _, _)
Visited(fs, wd, path) ==
    IF Stat(fs, wd, path).kind = "dir"
    THEN <<path>> \o VisitedFrom(fs, wd, path, 1)
    ELSE <<path>>

VisitedFrom(fs, wd, dir, i) ==
    IF i > Len(SortedNames) THEN <<>>
    ELSE (IF Exists(fs, wd, Join(dir, SortedNames[i]))
          THEN Visited(fs, wd, Join(dir, SortedNames[i]))
          ELSE <<>>) \o VisitedFrom(fs, wd, dir, i + 1)

\* the first directory of the walk that cannot be read, 0 when all can:
\* fn is called again for it with the error, returns it, and the walk ends
FirstLocked(fs, wd, visited) ==
    IF \E i \in 1..Len(visited) : Stat(fs, wd, visited[i]).kind = "locked"
    THEN CHOOSE i \in 1..Len(visited) :
            /\ Stat(fs, wd, visited[i]).kind = "locked"
            /\ \A j \in 1..(i - 1) : Stat(fs, wd, visited[j]).kind # "locked"
    ELSE 0

\* a pattern of literal characters, "*" and "?" against one path component
RECURSIVE MatchChars(_, _)
MatchChars(pattern, name) ==
    IF pattern = <<>> THEN name = <<>>
    ELSE IF Head(pattern) = "*"
         THEN \E k \in 0..Len(name) :
                 MatchChars(Tail(pattern), SubSeq(name, k + 1, Len(name)))
    ELSE IF name = <<>> THEN FALSE
    ELSE IF Head(pattern) = "?" \/ Head(pattern) = Head(name)
         THEN MatchChars(Tail(pattern), Tail(name))
    ELSE FALSE

\* filepath.Match(pattern, name): no wildcard matches a separator
Match(pattern, name) ==
    /\ Len(pattern) = Len(name)
    /\ \A i \in 1..Len(pattern) : MatchChars(pattern[i], name[i])

\* the walk function of the directory branches: skip directories, apply
\* the language filter, append
WalkFn_KeepsDirectories(fs, wd, currentPath, languageFilter) ==
    languageFilter = <<>> \/ matchesLanguage(currentPath, languageFilter)

WalkFn(fs, wd, currentPath, languageFilter) ==
    /\ ~IsDir(Stat(fs, wd, currentPath))
    /\ languageFilter = <<>> \/ matchesLanguage(currentPath, languageFilter)

\* a pattern branch that takes every file
GlobFn_IgnoresPattern(fs, wd, pattern, currentPath, languageFilter) ==
    /\ ~IsDir(Stat(fs, wd, currentPath))
    /\ languageFilter = <<>> \/ matchesLanguage(currentPath, languageFilter)

\* the walk function of the pattern branch
GlobFn(fs, wd, pattern, currentPath, languageFilter) ==
    /\ ~IsDir(Stat(fs, wd, currentPath))
    /\ Match(pattern, currentPath)
    /\ languageFilter = <<>> \/ matchesLanguage(currentPath, languageFilter)

\* filepath.Walk(root, fn) with one of the walk functions
WalkFiles(fs, wd, root, Fn(_)) ==
    LET visited == Visited(fs, wd, root)
        n == FirstLocked(fs, wd, visited)
        seen == IF n = 0 THEN visited ELSE SubSeq(visited, 1, n)
    IN [files |-> SelectSeq(seen, Fn),
        err |-> IF n = 0 THEN "none" ELSE "walk",
        walked |-> TRUE]

discoverFiles(fs, wd, path, languageFilter) ==
    IF Exists(fs, wd, path) /\ ~IsDir(Stat(fs, wd, path))
    THEN [files |-> IF languageFilter # <<>> /\ ~matchesLanguage(path, languageFilter)
                    THEN <<>> ELSE <<path>>,
          err |-> "none", walked |-> FALSE]
    ELSE IF path = <<DOT>>
    THEN WalkFiles(fs, wd, <<DOT>>, LAMBDA c : WalkFn(fs, wd, c, languageFilter))
    ELSE IF Exists(fs, wd, path) /\ IsDir(Stat(fs, wd, path))
    THEN WalkFiles(fs, wd, path, LAMBDA c : WalkFn(fs, wd, c, languageFilter))
    ELSE WalkFiles(fs, wd, <<DOT>>, LAMBDA c : GlobFn(fs, wd, path, c, languageFilter))

(***************************************************************************)
(* discoverFiles called directly                                           *)
(***************************************************************************)
VGO == <<"v", ".", "g", "o">>

AGO == <<"a", ".", "g", "o">>

BGO == <<"b", ".", "g", "o">>

CPY == <<"c", ".", "p", "y">>

EGOUP == <<"E", ".", "G", "O">>

MaxFiles == 6

\* the files a project may hold beside its sgconfig.yml: the three of the
\* size-limit scenario, a file of exactly 1 MiB with an upper-case extension
\* below a directory named like a Go file, a directory that cannot be read,
\* a file without extension one byte over 1 MiB, a second nested file
Candidates ==
    << FileEntry(Join(Chain(1), AGO), 500),
       FileEntry(Join(Chain(1), BGO), 2100000),
       FileEntry(Join(Chain(1), CPY), 300),
       FileEntry(Chain(1) \o <<VGO, EGOUP>>, 1048576),
       LockedEntry(Join(Chain(1), <<"w">>)),
       FileEntry(Join(Chain(1), <<"d">>), 1048577),
       FileEntry(Chain(1) \o <<VGO, <<"f", ".", "p", "y">> >>, 10),
       FileEntry(Chain(1) \o <<VGO, AGO>>, 20) >>

DiscoverTrees ==
    {ProjectTree \cup {DirEntry(Join(Chain(1), VGO))} \cup {Candidates[i] : i \in I} :
        I \in SUBSET (1..MaxFiles)}

\* ".", a directory by relative and by absolute path, files by relative and
\* by absolute path, a name no file has, patterns of one and two levels, and
\* the pattern "**/*.go"
DiscoverPaths ==
    {<<DOT>>, <<VGO>>, Chain(1), <<AGO>>, <<VGO, EGOUP>>, Join(Chain(1), CPY),
     <<<<"z">>>>, <<<<"*", ".", "g", "o">>>>, <<<<"*">>, <<"*", ".", "G", "?">>>>,
     <<<<"*", "*">>, <<"*", ".", "g", "o">>>>}

DiscoverLanguages == {<<>>, LGO, LPYTHON, LGOUP}

DiscoverInit ==
    /\ now = 0
    /\ heap = <<>>
    /\ communityRuleCache = 0
    /\ cacheTimestamp = ZeroTime
    /\ tsOwner = 0
    /\ CallersIdle
    /\ SearchIdle
    /\ ImportIdle
    /\ DiskIdle
    /\ ScanIdle
    /\ RuleIdle
    /\ fsys \in DiscoverTrees
    /\ cwd \in {Chain(1), Join(Chain(1), VGO)}
    /\ projectRootOverride = <<>>

CallDiscoverFiles ==
    /\ uPc = "ready"
    /\ \E path \in DiscoverPaths, languageFilter \in DiscoverLanguages :
          /\ uArgs' = <<path, languageFilter>>
          /\ uOut' = discoverFiles(fsys, cwd, path, languageFilter)
    /\ uPc' = "done"
    /\ UNCHANGED <<now, heap, communityRuleCache, cacheTimestamp, tsOwner, callerVars,
                   searchVars, importVars, diskVars, ruleVars, fsys, cwd,
                   projectRootOverride,
                   tmpDir, scanPc, scanArgs, scanOut>>

DiscoverNext == CallDiscoverFiles

DiscoverSpec == DiscoverInit /\ [][DiscoverNext]_vars

(***************************************************************************)
(* scanCodeHandler and scanPathHandler                                     *)
(***************************************************************************)
\* the files os.CreateTemp makes: "ast-grep-scan.*.<language>" and "sg*"
TmpScan == "ast-grep-scan"

TmpSg == "sg"

\* tmpfile.Name() of the code sample
TmpScanPath == <<SLASH, <<"t", "m", "p">>, <<"s", "c", "a", "n">>>>

\* os.Remove(name), deferred
Remove_Skipped(tmp, name) == tmp

Remove(tmp, name) == tmp \ {name}

\* mcp.NewToolResultError and mcp.NewToolResultText
ScanError(msg) == [NoScanOut EXCEPT !.isError = TRUE, !.msg = msg]

ScanText(msg, text) == [NoScanOut EXCEPT !.msg = msg, !.text = text]

\* what the subprocess prints when it runs
EngineOutputs == {"[]", "[{\"ruleId\":\"r\"}]", "Error: cannot read configuration"}

\* the subprocess cannot be started, or runs, prints and exits
EngineOutcomes ==
    {[launched |-> FALSE, status |-> 0 - 1, output |-> ""]} \cup
    {[launched |-> TRUE, status |-> st, output |-> o] : st \in {0, 1}, o \in EngineOutputs}

\* the step of a handler that fails, "none" when none does
FailPoints ==
    {"createTemp", "write", "close", "extractCreate", "extractWrite", "extractChmod"}

\* the files deleted between the walk and the size check
GoneSets == {{}, {Join(Chain(1), AGO)}}

ScanEnvs ==
    {[fail |-> f, engine |-> CHOOSE e \in EngineOutcomes : ~e.launched, gone |-> {}] :
        f \in FailPoints} \cup
    {[fail |-> "none", engine |-> e, gone |-> g] : e \in EngineOutcomes, g \in GoneSets}

\* extractSgBinary: whether it returns an error, and the temporary files after
extractSgBinary(tmp, fail) ==
    IF fail = "extractCreate" THEN [err |-> TRUE, tmp |-> tmp]
    ELSE IF fail \in {"extractWrite", "extractChmod"}
         THEN [err |-> TRUE, tmp |-> tmp \cup {TmpSg}]
    ELSE [err |-> FALSE, tmp |-> tmp \cup {TmpSg}]

\* exec.Command(sgPath, "scan", "--config", config, targets..., "--json")
\* with cmd.Dir = dir, and cmd.CombinedOutput()
CombinedOutput(dir, config, targets, engine) ==
    [output |-> engine.output,
     err |-> ~engine.launched \/ engine.status # 0,
     run |-> [ran |-> TRUE, dir |-> dir, config |-> config, targets |-> targets,
              launched |-> engine.launched, status |-> engine.status,
              output |-> engine.output]]

\* the sgconfig argument when it is a non-empty string, else the default
ConfigArg(req) == IF req.sgconfig # <<>> THEN req.sgconfig ELSE <<SGCONFIG>>

\* the result returned and the temporary files left behind
scanCodeHandler(fs, wd, override, tmp, req, env) ==
    LET sgconfigStr == ConfigArg(req)
        tmp1 == tmp \cup {TmpScan}
        sg == extractSgBinary(tmp1, env.fail)
        projectRoot == findProjectRoot(fs, wd, override)
        cmd == CombinedOutput(projectRoot.dir, sgconfigStr, <<TmpScanPath>>, env.engine)
    IN IF ~req.hasCode THEN [out |-> ScanError("code"), tmp |-> tmp]
       ELSE IF ~req.hasLanguage THEN [out |-> ScanError("language"), tmp |-> tmp]
       ELSE IF ~Exists(fs, wd, sgconfigStr)
            THEN [out |-> ScanText("noconfig", "Error: Configuration file not found"),
                  tmp |-> tmp]
       ELSE IF env.fail = "createTemp"
            THEN [out |-> ScanError("createTemp"), tmp |-> tmp]
       ELSE IF env.fail \in {"write", "close"}
            THEN [out |-> ScanError(env.fail), tmp |-> Remove(tmp1, TmpScan)]
       ELSE IF sg.err
            THEN [out |-> ScanError("extract"), tmp |-> Remove(sg.tmp, TmpScan)]
       ELSE IF projectRoot.err # "none"
            THEN [out |-> ScanError("notfound"),
                  tmp |-> Remove(Remove(sg.tmp, TmpSg), TmpScan)]
       ELSE [out |-> [ScanText("output", cmd.output) EXCEPT !.engine = cmd.run],
             tmp |-> Remove(Remove(sg.tmp, TmpSg), TmpScan)]

sizeLimit == 1048576

OverLimit_Inclusive(size) == size >= sizeLimit

OverLimit(size) == size > sizeLimit

\* a size loop that ends at the first file it cannot stat
RECURSIVE SizeGate_StopsAtStatError(_, _, _, _, _)
SizeGate_StopsAtStatError(fs, wd, gone, files, acc) ==
    IF files = <<>> THEN acc
    ELSE IF Abs(wd, Head(files)) \in gone
    THEN [acc EXCEPT !.statFailed = Append(@, Head(files))]
    ELSE IF OverLimit(Stat(fs, wd, Head(files)).size)
    THEN SizeGate_StopsAtStatError(fs, wd, gone, Tail(files),
                                   [acc EXCEPT !.skippedFiles = Append(@, Head(files))])
    ELSE SizeGate_StopsAtStatError(fs, wd, gone, Tail(files),
                                   [acc EXCEPT !.validFiles = Append(@, Head(files))])

\* the size loop: a file that cannot be stat'ed is logged and left out, a
\* file over the limit goes to skippedFiles, any other to validFiles
RECURSIVE SizeGate(_, _, _, _, _)
SizeGate(fs, wd, gone, files, acc) ==
    IF files = <<>> THEN acc
    ELSE LET file == Head(files)
         IN IF Abs(wd, file) \in gone
            THEN SizeGate(fs, wd, gone, Tail(files),
                          [acc EXCEPT !.statFailed = Append(@, file)])
            ELSE IF OverLimit(Stat(fs, wd, file).size)
            THEN SizeGate(fs, wd, gone, Tail(files),
                          [acc EXCEPT !.skippedFiles = Append(@, file)])
            ELSE SizeGate(fs, wd, gone, Tail(files),
                          [acc EXCEPT !.validFiles = Append(@, file)])

\* a handler without the emptiness checks
NoFiles_Unchecked(files) == FALSE

\* len(files) == 0
NoFiles(files) == Len(files) = 0

scanFileBatch_ReturnsError(files, sgconfigStr, projectRoot, engine) ==
    IF Len(files) = 0 THEN [output |-> "[]", err |-> FALSE, run |-> NoEngine]
    ELSE CombinedOutput(projectRoot, sgconfigStr, files, engine)

\* scanFileBatch: it logs the error of CombinedOutput and returns none
scanFileBatch(files, sgconfigStr, projectRoot, engine) ==
    IF NoFiles(files) THEN [output |-> "[]", err |-> FALSE, run |-> NoEngine]
    ELSE [CombinedOutput(projectRoot, sgconfigStr, files, engine) EXCEPT !.err = FALSE]

scanPathHandler(fs, wd, override, tmp, req, env) ==
    LET sgconfigStr == ConfigArg(req)
        languageFilter == ToLower(req.language)
        sg == extractSgBinary(tmp, env.fail)
        projectRoot == findProjectRoot(fs, wd, override)
        found == discoverFiles(fs, wd, req.path, languageFilter)
        gate == SizeGate(fs, wd, env.gone, found.files,
                         [validFiles |-> <<>>, skippedFiles |-> <<>>,
                          statFailed |-> <<>>])
        batch == scanFileBatch(gate.validFiles, sgconfigStr, projectRoot.dir, env.engine)
        seen(out) == [out EXCEPT !.files = found.files,
                                 !.validFiles = gate.validFiles,
                                 !.skippedFiles = gate.skippedFiles,
                                 !.statFailed = gate.statFailed]
    IN IF ~req.hasPath THEN [out |-> ScanError("path"), tmp |-> tmp]
       ELSE IF ~Exists(fs, wd, sgconfigStr)
            THEN [out |-> ScanText("noconfig", "Error: Configuration file not found"),
                  tmp |-> tmp]
       ELSE IF sg.err THEN [out |-> ScanError("extract"), tmp |-> sg.tmp]
       ELSE IF projectRoot.err # "none"
            THEN [out |-> ScanError("notfound"), tmp |-> Remove(sg.tmp, TmpSg)]
       ELSE IF found.err # "none"
            THEN [out |-> ScanError("discover"), tmp |-> Remove(sg.tmp, TmpSg)]
       ELSE IF NoFiles(found.files)
            THEN [out |-> [ScanText("nofiles", "[]") EXCEPT !.files = found.files],
                  tmp |-> Remove(sg.tmp, TmpSg)]
       ELSE IF NoFiles(gate.validFiles)
            THEN [out |-> seen(ScanText("novalid", "[]")), tmp |-> Remove(sg.tmp, TmpSg)]
       ELSE IF batch.err
            THEN [out |-> seen([ScanError("scan") EXCEPT !.engine = batch.run]),
                  tmp |-> Remove(sg.tmp, TmpSg)]
       ELSE [out |-> seen([ScanText("output", batch.output) EXCEPT !.engine = batch.run]),
             tmp |-> Remove(sg.tmp, TmpSg)]

\* scan_code requests: with or without the required arguments, with the
\* default configuration or one given by absolute path
ScanCodeRequests ==
    {[tool |-> "scan_code", hasCode |-> c, hasLanguage |-> l, sgconfig |-> g] :
        c \in BOOLEAN, l \in BOOLEAN, g \in {<<>>, Join(Chain(1), SGCONFIG)}}

ScanPaths == {<<DOT>>, <<VGO>>, <<AGO>>, <<BGO>>, <<<<"z">>>>}

ScanPathRequests ==
    {[tool |-> "scan_path", hasPath |-> FALSE, path |-> <<>>, language |-> <<>>,
      sgconfig |-> <<>>]} \cup
    {[tool |-> "scan_path", hasPath |-> TRUE, path |-> p, language |-> l, sgconfig |-> g] :
        p \in ScanPaths, l \in {<<>>, LGO, LGOUP},
        g \in {<<>>, Join(Chain(1), SGCONFIG)}}

\* the project directory /p holding the three files of the size-limit
\* scenario or every candidate file, with an sgconfig.yml in any of "/",
\* /p and /p/v.go
ScanTrees ==
    {{DirEntry(Chain(0)), DirEntry(Chain(1)), DirEntry(Join(Chain(1), VGO))} \cup
     {Candidates[i] : i \in 1..n} \cup {FileEntry(Join(d, SGCONFIG), 40) : d \in M} :
        n \in {3, MaxFiles},
        M \in SUBSET {Chain(0), Chain(1), Join(Chain(1), VGO)}}

ScanInit ==
    /\ now = 0
    /\ heap = <<>>
    /\ communityRuleCache = 0
    /\ cacheTimestamp = ZeroTime
    /\ tsOwner = 0
    /\ CallersIdle
    /\ SearchIdle
    /\ ImportIdle
    /\ DiskIdle
    /\ ScanIdle
    /\ RuleIdle
    /\ fsys \in ScanTrees
    /\ cwd \in {Chain(0), Chain(1), Join(Chain(1), VGO)}
    /\ projectRootOverride \in {<<>>, <<DOT>>, Chain(1)}

ScanCode ==
    /\ scanPc = "ready"
    /\ \E req \in ScanCodeRequests, env \in ScanEnvs :
          LET r == scanCodeHandler(fsys, cwd, projectRootOverride, tmpDir, req, env)
          IN /\ scanArgs' = req
             /\ scanOut' = r.out
             /\ tmpDir' = r.tmp
    /\ scanPc' = "done"
    /\ UNCHANGED <<now, heap, communityRuleCache, cacheTimestamp, tsOwner, callerVars,
                   searchVars, importVars, diskVars, ruleVars, fsys, cwd,
                   projectRootOverride,
                   uPc, uArgs, uOut>>

ScanPath ==
    /\ scanPc = "ready"
    /\ \E req \in ScanPathRequests, env \in ScanEnvs :
          LET r == scanPathHandler(fsys, cwd, projectRootOverride, tmpDir, req, env)
          IN /\ scanArgs' = req
             /\ scanOut' = r.out
             /\ tmpDir' = r.tmp
    /\ scanPc' = "done"
    /\ UNCHANGED <<now, heap, communityRuleCache, cacheTimestamp, tsOwner, callerVars,
                   searchVars, importVars, diskVars, ruleVars, fsys, cwd,
                   projectRootOverride,
                   uPc, uArgs, uOut>>

ScanNext == ScanCode \/ ScanPath

ScanSpec == ScanInit /\ [][ScanNext]_vars

(***************************************************************************)
(* getCommunityRuleDetailsHandler                                          *)
(***************************************************************************)
RuleError(msg) == [NoRuleOut EXCEPT !.isError = TRUE, !.msg = msg]

RuleText(msg) == [NoRuleOut EXCEPT !.msg = msg]

DetailsArgs(hasId, ruleId) ==
    [tool |-> "get_community_rule_details", hasId |-> hasId, ruleId |-> ruleId]

\* a request without the required "rule_id" argument
DetailsMissingId ==
    /\ hPc = "ready"
    /\ hArgs' = DetailsArgs(FALSE, <<>>)
    /\ hOut' = RuleError("rule_id")
    /\ hPc' = "done"
    /\ UNCHANGED <<now, heap, communityRuleCache, cacheTimestamp, tsOwner, callerVars,
                   searchVars, importVars, diskVars, scanVars, hResp>>

\* the index fetch fails
DetailsFetchFails ==
    /\ hPc = "ready"
    /\ \E id \in RuleIDs : hArgs' = DetailsArgs(TRUE, id)
    /\ \E f \in FetchAtomic(HandlerVersions) : f.err # "none" /\ ApplyFetch(f)
    /\ hOut' = RuleError("fetch")
    /\ hPc' = "done"
    /\ UNCHANGED <<now, callerVars, searchVars, importVars, diskVars, scanVars, hResp>>

\* the index holds no rule with this id
DetailsNotFound ==
    /\ hPc = "ready"
    /\ \E id \in RuleIDs, f \in FetchAtomic(HandlerVersions) :
          /\ f.err = "none"
          /\ FindRule(f.heap[f.index].rules, id) = 0
          /\ hArgs' = DetailsArgs(TRUE, id)
          /\ ApplyFetch(f)
    /\ hOut' = RuleText("notfound")
    /\ hPc' = "done"
    /\ UNCHANGED <<now, callerVars, searchVars, importVars, diskVars, scanVars, hResp>>

\* http.Get(ruleURL) fails, or the status is not 200
DetailsGetFails ==
    /\ hPc = "ready"
    /\ \E id \in RuleIDs :
          /\ hArgs' = DetailsArgs(TRUE, id)
          /\ \E f \in FetchesFinding(id) : ApplyFetch(f)
    /\ \E st \in {0, 404} :
          /\ hResp' = [status |-> st, declared |-> FALSE, body |-> <<>>]
          /\ hOut' = RuleError(IF st = 0 THEN "transport" ELSE "status")
    /\ hPc' = "done"
    /\ UNCHANGED <<now, callerVars, searchVars, importVars, diskVars, scanVars>>

\* resp.Body.Read returns an error other than EOF inside the read loop
DetailsReadFails ==
    /\ hPc = "ready"
    /\ \E id \in RuleIDs :
          /\ hArgs' = DetailsArgs(TRUE, id)
          /\ \E f \in FetchesFinding(id) : ApplyFetch(f)
    /\ \E r \in RuleResponses :
          /\ ~(ContentLength(r) > 0)
          /\ hResp' = r
    /\ hOut' = RuleError("read")
    /\ hPc' = "done"
    /\ UNCHANGED <<now, callerVars, searchVars, importVars, diskVars, scanVars>>

\* the details and the YAML content are shown
DetailsShows ==
    /\ hPc = "ready"
    /\ \E id \in RuleIDs :
          /\ hArgs' = DetailsArgs(TRUE, id)
          /\ \E f \in FetchesFinding(id) : ApplyFetch(f)
    /\ \E r \in RuleResponses :
          /\ hResp' = r
          /\ hOut' = [RuleText("details") EXCEPT !.content = ReadBody(r)]
    /\ hPc' = "done"
    /\ UNCHANGED <<now, callerVars, searchVars, importVars, diskVars, scanVars>>

DetailsNext ==
    \/ DetailsMissingId
    \/ DetailsFetchFails
    \/ DetailsNotFound
    \/ DetailsGetFails
    \/ DetailsReadFails
    \/ DetailsShows

(***************************************************************************)
(* addOrUpdateRuleHandler and removeRuleHandler                            *)
(***************************************************************************)
YML == <<".", "y", "m", "l">>

\* the rule_yaml arguments: empty, or a rule with id, language and rule
RuleYAMLs == {<<>>, <<"I", "L", "R">>}

\* the variables the two handlers leave alone
ruleStoreFrame ==
    <<now, heap, communityRuleCache, cacheTimestamp, tsOwner, callerVars, searchVars,
      importVars, scanVars, hResp, sgconfig>>

\* a request without "rule_id" or without "rule_yaml"
AddMissingArgument ==
    /\ hPc = "ready"
    /\ \E hasId \in BOOLEAN, hasYaml \in BOOLEAN :
          /\ ~(hasId /\ hasYaml)
          /\ hArgs' = [tool |-> "add_or_update_rule", hasId |-> hasId,
                       hasYaml |-> hasYaml, ruleId |-> <<>>, ruleYaml |-> <<>>]
          /\ hOut' = RuleError(IF ~hasId THEN "rule_id" ELSE "rule_yaml")
    /\ hPc' = "done"
    /\ UNCHANGED <<ruleStoreFrame, ruleFiles>>

\* getRuleDir fails
AddNoRuleDir ==
    /\ hPc = "ready"
    /\ getRuleDir(sgconfig) # "none"
    /\ \E id \in RuleIDs, yaml \in RuleYAMLs :
          hArgs' = [tool |-> "add_or_update_rule", hasId |-> TRUE, hasYaml |-> TRUE,
                    ruleId |-> id, ruleYaml |-> yaml]
    /\ hOut' = [NoRuleOut EXCEPT !.isError = getRuleDir(sgconfig) # "notfound",
                                 !.msg = getRuleDir(sgconfig)]
    /\ hPc' = "done"
    /\ UNCHANGED <<ruleStoreFrame, ruleFiles>>

\* os.WriteFile fails
AddWriteFails ==
    /\ hPc = "ready"
    /\ getRuleDir(sgconfig) = "none"
    /\ \E id \in RuleIDs, yaml \in RuleYAMLs :
          hArgs' = [tool |-> "add_or_update_rule", hasId |-> TRUE, hasYaml |-> TRUE,
                    ruleId |-> id, ruleYaml |-> yaml]
    /\ hOut' = RuleError("write")
    /\ hPc' = "done"
    /\ UNCHANGED <<ruleStoreFrame, ruleFiles>>

\* the rule is written to <ruleDir>/<rule_id>.yml
AddWrites ==
    /\ hPc = "ready"
    /\ getRuleDir(sgconfig) = "none"
    /\ \E id \in RuleIDs, yaml \in RuleYAMLs :
          /\ hArgs' = [tool |-> "add_or_update_rule", hasId |-> TRUE, hasYaml |-> TRUE,
                       ruleId |-> id, ruleYaml |-> yaml]
          /\ ruleFiles' = WriteFile(ruleFiles, id \o YML, yaml)
    /\ hOut' = RuleText("added")
    /\ hPc' = "done"
    /\ UNCHANGED ruleStoreFrame

AddNext ==
    \/ AddMissingArgument
    \/ AddNoRuleDir
    \/ AddWriteFails
    \/ AddWrites

RemoveArgs(hasId, ruleId) == [tool |-> "remove_rule", hasId |-> hasId, ruleId |-> ruleId]

\* the ids remove_rule is asked for: one with a file, one without
RemoveIDs == {<<"s", "q", "l">>, <<"n", "o">>}

\* a rule directory with the file of the first id
RemoveDirStates == {{}, {[name |-> <<"s", "q", "l">> \o YML, content |-> <<"I", "L", "R">>]}}

\* every failure of os.Remove taken for a missing file
IsNotExist_Always(files, name) == TRUE

\* os.IsNotExist(err) for the error of os.Remove(ruleFile)
IsNotExist(files, name) == \A f \in files : f.name # name

\* a request without the required "rule_id" argument
RemoveMissingId ==
    /\ hPc = "ready"
    /\ hArgs' = RemoveArgs(FALSE, <<>>)
    /\ hOut' = RuleError("rule_id")
    /\ hPc' = "done"
    /\ UNCHANGED <<ruleStoreFrame, ruleFiles>>

\* getRuleDir fails
RemoveNoRuleDir ==
    /\ hPc = "ready"
    /\ getRuleDir(sgconfig) # "none"
    /\ \E id \in RemoveIDs : hArgs' = RemoveArgs(TRUE, id)
    /\ hOut' = [NoRuleOut EXCEPT !.isError = getRuleDir(sgconfig) # "notfound",
                                 !.msg = getRuleDir(sgconfig)]
    /\ hPc' = "done"
    /\ UNCHANGED <<ruleStoreFrame, ruleFiles>>

\* os.Remove reports that the file does not exist
RemoveNotFound ==
    /\ hPc = "ready"
    /\ getRuleDir(sgconfig) = "none"
    /\ \E id \in RemoveIDs :
          /\ IsNotExist(ruleFiles, id \o YML)
          /\ hArgs' = RemoveArgs(TRUE, id)
    /\ hOut' = RuleText("notfound")
    /\ hPc' = "done"
    /\ UNCHANGED <<ruleStoreFrame, ruleFiles>>

\* os.Remove fails for another reason
RemoveFails ==
    /\ hPc = "ready"
    /\ getRuleDir(sgconfig) = "none"
    /\ \E id \in RemoveIDs :
          /\ ~IsNotExist(ruleFiles, id \o YML)
          /\ hArgs' = RemoveArgs(TRUE, id)
    /\ hOut' = RuleError("remove")
    /\ hPc' = "done"
    /\ UNCHANGED <<ruleStoreFrame, ruleFiles>>

\* the rule file is removed
RemoveRemoves ==
    /\ hPc = "ready"
    /\ getRuleDir(sgconfig) = "none"
    /\ \E id \in RemoveIDs :
          /\ ~IsNotExist(ruleFiles, id \o YML)
          /\ hArgs' = RemoveArgs(TRUE, id)
          /\ ruleFiles' = {f \in ruleFiles : f.name # id \o YML}
    /\ hOut' = RuleText("removed")
    /\ hPc' = "done"
    /\ UNCHANGED ruleStoreFrame

RemoveNext ==
    \/ RemoveMissingId
    \/ RemoveNoRuleDir
    \/ RemoveNotFound
    \/ RemoveFails
    \/ RemoveRemoves

(***************************************************************************)
(* initializeAstGrepHandler                                                *)
(***************************************************************************)
RULES == <<"r", "u", "l", "e", "s">>

\* len(sgconfigContent)
sgconfigSize == 21

\* os.MkdirAll: the directory and every missing parent
MkdirAll(fs, wd, path) ==
    LET abs == Abs(wd, path)
    IN fs \cup {DirEntry(SubSeq(abs, 1, n)) :
                  n \in {m \in 1..Len(abs) : ~Exists(fs, wd, SubSeq(abs, 1, m))}}

\* os.WriteFile on the tree: create or truncate
PutFile(fs, wd, path, size) ==
    {e \in fs : e.path # Abs(wd, path)} \cup {FileEntry(Abs(wd, path), size)}

initFrame ==
    <<now, heap, communityRuleCache, cacheTimestamp, tsOwner, callerVars, searchVars,
      importVars, ruleFiles, cwd, projectRootOverride, tmpDir, scanPc, scanArgs,
      scanOut, uPc, uArgs, uOut, hResp>>

\* os.Getwd fails; the override is not set
InitGetwdFails ==
    /\ hPc = "ready"
    /\ projectRootOverride = <<>>
    /\ hArgs' = [tool |-> "initialize_ast_grep"]
    /\ hOut' = RuleError("getwd")
    /\ hPc' = "done"
    /\ UNCHANGED <<initFrame, fsys, sgconfig>>

\* os.MkdirAll fails
InitMkdirFails ==
    /\ hPc = "ready"
    /\ hArgs' = [tool |-> "initialize_ast_grep"]
    /\ hOut' = RuleError("mkdir")
    /\ hPc' = "done"
    /\ UNCHANGED <<initFrame, fsys, sgconfig>>

\* the rules directory is made, os.WriteFile fails
InitWriteFails ==
    /\ hPc = "ready"
    /\ LET projectRoot == IF projectRootOverride # <<>> THEN projectRootOverride ELSE cwd
       IN fsys' = MkdirAll(fsys, cwd, Join(projectRoot, RULES))
    /\ hArgs' = [tool |-> "initialize_ast_grep"]
    /\ hOut' = RuleError("write")
    /\ hPc' = "done"
    /\ UNCHANGED <<initFrame, sgconfig>>

\* the rules directory and sgconfig.yml are written
InitInitializes ==
    /\ hPc = "ready"
    /\ LET projectRoot == IF projectRootOverride # <<>> THEN projectRootOverride ELSE cwd
       IN fsys' = PutFile(MkdirAll(fsys, cwd, Join(projectRoot, RULES)), cwd,
                          Join(projectRoot, SGCONFIG), sgconfigSize)
    /\ sgconfig' = "ok"
    /\ hArgs' = [tool |-> "initialize_ast_grep"]
    /\ hOut' = RuleText("initialized")
    /\ hPc' = "done"
    /\ UNCHANGED initFrame

InitializeNext ==
    \/ InitGetwdFails
    \/ InitMkdirFails
    \/ InitWriteFails
    \/ InitInitializes

(***************************************************************************)
(* The eight tools of the server, one request served per behaviour         *)
(***************************************************************************)
\* the project of a request: /p with a nested directory and three files,
\* with sgconfig.yml unless the configuration is absent
HandlerTree(cfg) ==
    {DirEntry(Chain(0)), DirEntry(Chain(1)), DirEntry(Join(Chain(1), VGO)),
     Candidates[1], Candidates[2], Candidates[3]}
      \cup (IF cfg = "absent" THEN {} ELSE {FileEntry(Join(Chain(1), SGCONFIG), 40)})

HandlerInit ==
    /\ heap = <<>>
    /\ communityRuleCache = 0
    /\ cacheTimestamp = ZeroTime
    /\ tsOwner = 0
    /\ now = 0
    /\ CallersIdle
    /\ SearchIdle
    /\ ImportIdle
    /\ ScanIdle
    /\ RuleIdle
    /\ sgconfig \in ConfigStates
    /\ ruleFiles \in RuleDirStates \cup RemoveDirStates
    /\ fsys = HandlerTree(sgconfig)
    /\ cwd = Chain(1)
    /\ projectRootOverride = <<>>

\* no request has been served yet
NoneServed ==
    /\ sPc = "ready"
    /\ iPc = "ready"
    /\ scanPc = "ready"
    /\ hPc = "ready"

Serve_search_community_rules == NoneServed /\ SearchNext

Serve_import_community_rule == NoneServed /\ ImportNext

Serve_get_community_rule_details == NoneServed /\ DetailsNext

Serve_scan_code == NoneServed /\ ScanCode

Serve_scan_path == NoneServed /\ ScanPath

Serve_add_or_update_rule == NoneServed /\ AddNext

Serve_remove_rule == NoneServed /\ RemoveNext

Serve_initialize_ast_grep == NoneServed /\ InitializeNext

HandlerNext ==
    \/ Serve_search_community_rules
    \/ Serve_import_community_rule
    \/ Serve_get_community_rule_details
    \/ Serve_scan_code
    \/ Serve_scan_path
    \/ Serve_add_or_update_rule
    \/ Serve_remove_rule
    \/ Serve_initialize_ast_grep

HandlerSpec == HandlerInit /\ [][HandlerNext]_vars

(***************************************************************************)
(* The rule store over a sequence of requests                              *)
(***************************************************************************)
\* the server takes the next request: the last request's arguments and
\* result stay on record until the next handler overwrites them
NextRequest ==
    /\ hPc = "done"
    /\ hPc' = "ready"
    /\ UNCHANGED <<now, heap, communityRuleCache, cacheTimestamp, tsOwner, callerVars,
                   searchVars, importVars, diskVars, scanVars, hArgs, hResp, hOut>>

StoreInit ==
    /\ heap = <<>>
    /\ communityRuleCache = 0
    /\ cacheTimestamp = ZeroTime
    /\ tsOwner = 0
    /\ now = 0
    /\ CallersIdle
    /\ SearchIdle
    /\ ImportIdle
    /\ ScanIdle
    /\ RuleIdle
    /\ sgconfig \in ConfigStates
    /\ ruleFiles \in RemoveDirStates
    /\ fsys = HandlerTree(sgconfig)
    /\ cwd = Chain(1)
    /\ projectRootOverride \in {<<>>, Chain(1)}

StoreNext ==
    \/ AddNext
    \/ RemoveNext
    \/ InitializeNext
    \/ NextRequest

StoreSpec == StoreInit /\ [][StoreNext]_vars

(***************************************************************************)
(* findProjectRoot called directly                                         *)
(***************************************************************************)
RootInit ==
    /\ now = 0
    /\ heap = <<>>
    /\ communityRuleCache = 0
    /\ cacheTimestamp = ZeroTime
    /\ tsOwner = 0
    /\ CallersIdle
    /\ SearchIdle
    /\ ImportIdle
    /\ DiskIdle
    /\ ScanIdle
    /\ RuleIdle
    /\ fsys \in RootTrees
    /\ cwd \in ChainDirs
    /\ projectRootOverride \in Overrides

CallFindProjectRoot ==
    /\ uPc = "ready"
    /\ uArgs' = <<"findProjectRoot">>
    /\ uOut' = findProjectRoot(fsys, cwd, projectRootOverride)
    /\ uPc' = "done"
    /\ UNCHANGED <<now, heap, communityRuleCache, cacheTimestamp, tsOwner, callerVars,
                   searchVars, importVars, diskVars, ruleVars, fsys, cwd,
                   projectRootOverride,
                   tmpDir, scanPc, scanArgs, scanOut>>

RootNext == CallFindProjectRoot

RootSpec == RootInit /\ [][RootNext]_vars

(***************************************************************************)
(* getRuleDir called directly                                              *)
(***************************************************************************)
\* the ruleDirs lists of an sgconfig.yml that parses
RuleDirLists == {<<>>, <<RULES>>, << <<" ">> \o RULES \o <<" ">>, <<"x">> >>}

\* what os.ReadFile and yaml.Unmarshal make of the sgconfig.yml found
ConfigDocs ==
    {[state |-> "parsed", ruleDirs |-> l] : l \in RuleDirLists}
      \cup {[state |-> st, ruleDirs |-> <<>>] : st \in {"unreadable", "malformed"}}

\* getRuleDir: the walk to the nearest sgconfig.yml, then its first ruleDirs
\* entry joined to the directory of the file
getRuleDirIn(fs, wd, override, doc) ==
    LET found == WalkUp(fs, wd, IF override # <<>> THEN override ELSE wd)
        failed(err) == [dir |-> <<>>, err |-> err]
    IN IF found.err # "none" THEN failed("notfound")
       ELSE IF doc.state = "unreadable" THEN failed("read")
       ELSE IF doc.state = "malformed" THEN failed("parse")
       ELSE IF Len(doc.ruleDirs) = 0 THEN failed("noRuleDirs")
       ELSE [dir |-> Join(found.dir, TrimSpace(doc.ruleDirs[1])), err |-> "none"]

CallGetRuleDir ==
    /\ uPc = "ready"
    /\ \E doc \in ConfigDocs :
          /\ uArgs' = <<"getRuleDir", doc>>
          /\ uOut' = getRuleDirIn(fsys, cwd, projectRootOverride, doc)
    /\ uPc' = "done"
    /\ UNCHANGED <<now, heap, communityRuleCache, cacheTimestamp, tsOwner, callerVars,
                   searchVars, importVars, diskVars, ruleVars, fsys, cwd,
                   projectRootOverride,
                   tmpDir, scanPc, scanArgs, scanOut>>

RuleDirNext == CallGetRuleDir

RuleDirSpec == RootInit /\ [][RuleDirNext]_vars

(***************************************************************************)
(* Properties of the index cache                                           *)
(***************************************************************************)
Returned(p) == pc[p] = "idle" /\ result[p].err # "nocall"

Returning(p) == pc[p] # "idle" /\ pc'[p] = "idle"

\* the call of p began with a snapshot cached and younger than the TTL
FreshAtCall(p) ==
    atCall[p].cache # 0 /\ atCall[p].now - atCall[p].ts < cacheTTL

\* the call of p began with a snapshot cached and as old as the TTL or older
StaleAtCall(p) ==
    atCall[p].cache # 0 /\ atCall[p].now - atCall[p].ts >= cacheTTL

Failed(p) == result[p].err \in {"transport", "status", "parse"}

\* C1: a fetch that begins while a snapshot is cached and younger than the
\* TTL issues no HTTP request and returns that very cached object; so only
\* calls that begin on an empty or expired cache issue a request, one each.
C1_CachedWithinTTL ==
    \A p \in Procs :
        /\ reqs[p] <= 1
        /\ (pc[p] # "idle" \/ Returned(p)) /\ FreshAtCall(p) =>
              /\ reqs[p] = 0
              /\ Returned(p) => result[p] = [index |-> atCall[p].cache, err |-> "none"]

C1_Witness ==
    \E p \in Procs :
        /\ Returned(p) /\ FreshAtCall(p)
        /\ reqs[p] = 0
        /\ result[p].index = communityRuleCache
        /\ \E q \in Procs \ {p} : Returned(q) /\ reqs[q] = 1 /\ result[q] = result[p]

\* C2: when a fetch returns an error, the cache pointer, the cached object
\* and the cache timestamp are what they were when the call began, and no
\* index is returned.
C2_FailureLeavesCache ==
    [][\A p \in Procs :
          Returning(p) /\ result'[p].err \in {"transport", "status", "parse"} =>
              /\ communityRuleCache' = atCall[p].cache
              /\ Deref(heap', communityRuleCache') = atCall[p].snap
              /\ cacheTimestamp' = atCall[p].ts
              /\ result'[p].index = 0]_vars

C2_Witness ==
    \E p \in Procs :
        /\ Returned(p) /\ Failed(p) /\ StaleAtCall(p)
        /\ communityRuleCache = atCall[p].cache
        /\ cacheTimestamp = atCall[p].ts

\* C3: a query whose refresh of a stale snapshot failed is answered from
\* the retained snapshot and is not an error.
C3_StaleSnapshotServed ==
    \A p \in Procs :
        Returned(p) /\ StaleAtCall(p) /\ Failed(p)
            => HandlerOutcome(result[p]) = [isError |-> FALSE, from |-> atCall[p].cache]

\* C4: in every state the cache timestamp was recorded by the fetch that
\* installed the cached snapshot.
C4_SnapshotAndTimestampPaired == tsOwner = communityRuleCache

\* the index documents the registry can serve
Complete(doc) == \E v \in Versions : doc = RegistryIndex(v)

C6_RefreshAfterTTL ==
    [][\A p \in Procs :
          Returning(p) /\ StaleAtCall(p) =>
              /\ reqs'[p] = 1
              /\ result'[p].err = "none" =>
                    /\ communityRuleCache' = result'[p].index
                    /\ communityRuleCache' # atCall[p].cache
                    /\ cacheTimestamp' = now'
                    /\ now' - cacheTimestamp' < cacheTTL]_vars

C6_Witness ==
    \E p \in Procs :
        /\ Returned(p) /\ StaleAtCall(p) /\ result[p].err = "none"
        /\ communityRuleCache = result[p].index
        /\ \E q \in Procs \ {p} :
              /\ Returned(q) /\ FreshAtCall(q) /\ reqs[q] = 0
              /\ atCall[q].cache = result[p].index

(***************************************************************************)
(* Properties of the search                                                *)
(***************************************************************************)
Range(seq) == {seq[i] : i \in 1..Len(seq)}

EqualFold(a, b) == ToLower(a) = ToLower(b)

ContainsFold(str, sub) == Contains(ToLower(str), ToLower(sub))

\* the search request was answered from an index
Answered == sPc = "done" /\ ~sOut.isError

\* the rules of the index the answer was computed from
Snapshot == heap[sOut.from].rules

\* the requested tags: the comma-separated pieces of the argument, trimmed
RequestedTags ==
    IF sArgs.tags = <<>> THEN <<>>
    ELSE LET pieces == Split(sArgs.tags, ",")
         IN [i \in 1..Len(pieces) |-> TrimSpace(pieces[i])]

HasEveryTag(e, requested) ==
    \A j \in 1..Len(requested) :
        \E i \in 1..Len(e.tags) : EqualFold(e.tags[i], requested[j])

QueryHits(e) ==
    \/ ContainsFold(e.id, sArgs.query)
    \/ ContainsFold(e.description, sArgs.query)
    \/ \E i \in 1..Len(e.tags) : ContainsFold(e.tags[i], sArgs.query)

Wanted(e) ==
    /\ sArgs.language # <<>> => EqualFold(e.language, sArgs.language)
    /\ HasEveryTag(e, RequestedTags)
    /\ sArgs.query # <<>> => QueryHits(e)

\* C7: the answer holds exactly the entries of the snapshot that pass every
\* active filter (language equal ignoring case, every requested tag present,
\* query a case-insensitive substring of the id, the description or a tag);
\* "sql injection" with language "go" over the three-rule fixture yields the
\* Go SQL-injection rule alone.
C7_SearchSelectsExactly ==
    Answered =>
        /\ Range(sOut.rules) = {e \in Range(Snapshot) : Wanted(e)}
        /\ (sArgs.query = QSQLINJ /\ sArgs.language = LGO /\ sArgs.tags = <<>>
              /\ Snapshot = createTestRules) => sOut.rules = <<createTestRules[1]>>

\* the language filter decides: a rule stored as "Go" is returned for "GO",
\* a rule stored as "py" is not
C7_Witness ==
    /\ Answered
    /\ sArgs.language = LGOUP
    /\ sArgs.query # <<>>
    /\ sArgs.tags # <<>>
    /\ \E e \in Range(sOut.rules) : e.language # ToLower(e.language)
    /\ \E e \in Range(Snapshot) : ~EqualFold(e.language, sArgs.language)
    /\ \E e \in Range(Snapshot) :
          EqualFold(e.language, sArgs.language) /\ e \notin Range(sOut.rules)

\* C8: every returned entry has, for every requested tag, a stored tag equal
\* to it ignoring case (the whole tag, not a part of it); when the tag filter
\* is the only one active the answer is exactly the entries that do.
C8_TagFilterWholeTags ==
    Answered =>
        /\ \A e \in Range(sOut.rules) : HasEveryTag(e, RequestedTags)
        /\ (sArgs.language = <<>> /\ sArgs.query = <<>>) =>
              Range(sOut.rules) = {e \in Range(Snapshot) : HasEveryTag(e, RequestedTags)}

\* a rule whose tag only contains the requested tag is dropped, a rule whose
\* tag equals it in another case is kept
C8_Witness ==
    /\ Answered
    /\ Len(RequestedTags) >= 2
    /\ sArgs.language = <<>> /\ sArgs.query = <<>>
    /\ \E e \in Range(Snapshot) \ Range(sOut.rules) :
          \E i \in 1..Len(e.tags) :
              /\ ContainsFold(e.tags[i], RequestedTags[1])
              /\ RequestedTags[1] # <<>>
    /\ \E e \in Range(sOut.rules) :
          \E i \in 1..Len(e.tags) :
              /\ EqualFold(e.tags[i], RequestedTags[1])
              /\ e.tags[i] # RequestedTags[1]

RECURSIVE IsSubsequence(_, _)
IsSubsequence(a, b) ==
    IF a = <<>> THEN TRUE
    ELSE IF b = <<>> THEN FALSE
    ELSE IF Head(a) = Head(b) THEN IsSubsequence(Tail(a), Tail(b))
    ELSE IsSubsequence(a, Tail(b))

NoDuplicates(seq) == \A i, j \in 1..Len(seq) : seq[i] = seq[j] => i = j

\* C9: the answer is a subsequence of the snapshot's rule list, in the
\* snapshot's order, and holds no entry twice.
C9_ResultIsSubsequence ==
    Answered =>
        /\ IsSubsequence(sOut.rules, Snapshot)
        /\ NoDuplicates(sOut.rules)

\* the query hits the id, the description and two tags of a returned entry,
\* and two tags of another returned entry
C9_Witness ==
    /\ Answered
    /\ sArgs.query # <<>>
    /\ Len(sOut.rules) >= 2
    /\ \E e \in Range(sOut.rules) :
          /\ ContainsFold(e.id, sArgs.query)
          /\ ContainsFold(e.description, sArgs.query)
          /\ \E i, j \in 1..Len(e.tags) :
                i # j /\ ContainsFold(e.tags[i], sArgs.query)
                      /\ ContainsFold(e.tags[j], sArgs.query)
    /\ \E e \in Range(sOut.rules) :
          /\ ~ContainsFold(e.id, sArgs.query)
          /\ ~ContainsFold(e.description, sArgs.query)
          /\ \E i, j \in 1..Len(e.tags) :
                i # j /\ ContainsFold(e.tags[i], sArgs.query)
                      /\ ContainsFold(e.tags[j], sArgs.query)

(***************************************************************************)
(* Properties of the import                                                *)
(***************************************************************************)
\* what is wrong with a rule file: "parse" when it is not a YAML document,
\* else "id" or "language" when that field is missing or empty, else "ok"
Defect(body) ==
    IF ~YamlUnmarshals(body) THEN "parse"
    ELSE IF ~RuleHasID(body) THEN "id"
    ELSE IF ~RuleHasLanguage(body) THEN "language"
    ELSE "ok"

\* an import request has just received the whole rule file from the registry
ImportedBody ==
    /\ iPc = "ready" /\ iPc' = "done"
    /\ iResp'.status = 200
    /\ iOut'.msg # "read"

\* C10: when the rule file the registry sent does not parse, or has no id,
\* or has no language, the import leaves the rule directory as it was and
\* returns an error naming that defect.
C10_InvalidRuleNeverWritten ==
    [][ImportedBody /\ Defect(iResp'.body) # "ok" =>
          /\ ruleFiles' = ruleFiles
          /\ iOut'.isError
          /\ iOut'.msg = Defect(iResp'.body)]_vars

\* C11: whenever the registry answers the rule-file request with status 200
\* and the body is received whole, the content the import validates, writes
\* and reports is byte for byte the body the registry sent, whether or not
\* the response declares its content length.
C11_ContentIsBodySent ==
    [][ImportedBody => iOut'.content = iResp'.body]_vars

(***************************************************************************)
(* Properties of the project root                                          *)
(***************************************************************************)
\* the directory the resolution starts at
StartDir == Abs(cwd, IF projectRootOverride # <<>> THEN projectRootOverride ELSE cwd)

\* a directory and the directories above it, up to "/"
UpToRoot(dir) == {SubSeq(dir, 1, n) : n \in 1..Len(dir)}

HasMarker(dir) == \E e \in fsys : e.path = dir \o <<SGCONFIG>>

Marked(dir) == {d \in UpToRoot(dir) : HasMarker(d)}

Nearest(dirs) == CHOOSE d \in dirs : \A o \in dirs : Len(o) <= Len(d)

\* C19: the resolution starts at the override when one is given and at the
\* working directory otherwise, returns the nearest directory from there up
\* to "/" that holds an sgconfig.yml, and returns the not-found error exactly
\* when no directory on that path holds one.
C19_NearestMarkedDirectory ==
    uPc = "done" =>
        IF Marked(StartDir) = {} THEN uOut.err = "notfound"
        ELSE /\ uOut.err = "none"
             /\ Abs(cwd, uOut.dir) = Nearest(Marked(StartDir))

(***************************************************************************)
(* Properties of the file discovery                                        *)
(***************************************************************************)
\* the extensions of a language tag
ExtensionsOf(tag) ==
    CASE tag = <<"g","o">> -> {<<".","g","o">>}
      [] tag = <<"p","y","t","h","o","n">> -> {<<".","p","y">>}
      [] OTHER -> {}

\* the last component of a path ends in one of the extensions of the tag,
\* in any letter case
HasExtensionOf(path, tag) ==
    \E x \in ExtensionsOf(tag) :
        LET name == path[Len(path)]
        IN /\ Len(name) >= Len(x)
           /\ EqualFold(SubSeq(name, Len(name) - Len(x) + 1, Len(name)), x)
           /\ \A i \in (Len(name) - Len(x) + 2)..Len(name) : name[i] # "."

\* the regular files at or below a directory
FilesBelow(dir) ==
    {e \in fsys : /\ e.kind = "file"
                  /\ Len(e.path) > Len(dir)
                  /\ SubSeq(e.path, 1, Len(dir)) = dir}

\* discoverFiles was called for a directory whose tree can be read
DiscoveredDirectory ==
    /\ uPc = "done"
    /\ Exists(fsys, cwd, uArgs[1])
    /\ IsDir(Stat(fsys, cwd, uArgs[1]))
    /\ \A e \in fsys : e.kind # "locked"

\* C17: for a directory holding N regular files of which K have an extension
\* of the language tag, discover returns exactly K entries, each a regular
\* file below the directory with such an extension and none twice; without
\* a language filter it returns all N files.
C17_DiscoverReturnsTheKFiles ==
    DiscoveredDirectory =>
        LET dir == Abs(cwd, uArgs[1])
            wanted == {e.path : e \in {f \in FilesBelow(dir) :
                          uArgs[2] = <<>> \/ HasExtensionOf(f.path, uArgs[2])}}
        IN /\ uOut.err = "none"
           /\ Len(uOut.files) = Cardinality(wanted)
           /\ {Abs(cwd, uOut.files[i]) : i \in 1..Len(uOut.files)} = wanted

\* a filtered discovery of a directory with a nested file, a file with an
\* upper-case extension, and files and a directory the filter leaves out
C17_Witness ==
    /\ DiscoveredDirectory
    /\ uArgs[2] = LGO
    /\ Len(uOut.files) >= 2
    /\ Cardinality(FilesBelow(Abs(cwd, uArgs[1]))) > Len(uOut.files)
    /\ \E i \in 1..Len(uOut.files) : Ext(uOut.files[i]) = <<".", "G", "O">>
    /\ \E i \in 1..Len(uOut.files) : Len(uOut.files[i]) = 2

\* discoverFiles was called with the path of an existing non-directory
DiscoveredSingleFile ==
    /\ uPc = "done"
    /\ Exists(fsys, cwd, uArgs[1])
    /\ ~IsDir(Stat(fsys, cwd, uArgs[1]))

\* C18: for the path of an existing non-directory, discover returns the list
\* holding exactly that path when no language filter is active or the file
\* has an extension of the language, and the empty list without an error
\* when the filter excludes the file; it walks no directory.
C18_SingleFileIsReturnedOrFiltered ==
    DiscoveredSingleFile =>
        /\ uOut.err = "none"
        /\ ~uOut.walked
        /\ uOut.files = IF uArgs[2] = <<>> \/ HasExtensionOf(uArgs[1], uArgs[2])
                        THEN <<uArgs[1]>>
                        ELSE <<>>

\* a file given by a nested relative path, left out by the language filter
C18_Witness ==
    /\ DiscoveredSingleFile
    /\ Len(uArgs[1]) = 2
    /\ uArgs[2] = LPYTHON
    /\ uOut.files = <<>>

(***************************************************************************)
(* Properties of the scan                                                  *)
(***************************************************************************)
\* a scan request has returned
Scanned == scanPc = "done"

\* the handler started the subprocess, or tried to
EngineCalled == Scanned /\ scanOut.engine.ran

\* C12: when the subprocess cannot be launched, the scan returns an error
\* result, which neither a scan that found violations nor a scan that found
\* none returns.
C12_LaunchFailureIsAnError ==
    EngineCalled /\ ~scanOut.engine.launched => scanOut.isError

\* C13: when the subprocess runs and exits with a nonzero status, the scan
\* returns a normal result whose text is the combined output of the
\* subprocess, unmodified.
C13_NonzeroExitReturnsOutput ==
    EngineCalled /\ scanOut.engine.launched /\ scanOut.engine.status # 0 =>
        /\ ~scanOut.isError
        /\ scanOut.text = scanOut.engine.output

\* a scan_path whose subprocess reported a violation and exited with 1
C13_Witness ==
    /\ EngineCalled
    /\ scanArgs.tool = "scan_path"
    /\ scanOut.engine.launched
    /\ scanOut.engine.status = 1
    /\ scanOut.engine.output = "[{\"ruleId\":\"r\"}]"
    /\ scanOut.text = "[{\"ruleId\":\"r\"}]"

\* scan_code has returned from a point after it created the temporary file:
\* the write or the close failed, the engine binary could not be extracted,
\* the project root was not found, or the subprocess was started
ReturnedAfterCreateTemp ==
    /\ Scanned
    /\ scanArgs.tool = "scan_code"
    /\ scanOut.msg \in {"write", "close", "extract", "notfound", "output"}

ResolvedRoot == Abs(cwd, findProjectRoot(fsys, cwd, projectRootOverride).dir)

IsPrefix(a, b) == Len(a) <= Len(b) /\ SubSeq(b, 1, Len(a)) = a

\* a scan request with its required arguments has returned, in a project
\* whose root is found, the server working at or below that root
ScannedBelowRoot ==
    /\ Scanned
    /\ scanOut.msg \notin {"code", "language", "path"}
    /\ findProjectRoot(fsys, cwd, projectRootOverride).err = "none"
    /\ IsPrefix(ResolvedRoot, cwd)

\* C15: the scan anchors every relative path to the resolved project root:
\* it reports a missing configuration only when the root has none under the
\* configuration reference, and the configuration reference and the
\* discovered paths denote for the subprocess, which works in the root, the
\* files they denoted for the handler.
C15_PathsAnchoredToRoot ==
    ScannedBelowRoot =>
        /\ Exists(fsys, ResolvedRoot, ConfigArg(scanArgs)) => scanOut.msg # "noconfig"
        /\ scanOut.engine.ran =>
              LET dir == Abs(cwd, scanOut.engine.dir)
              IN /\ Abs(dir, scanOut.engine.config) = Abs(cwd, scanOut.engine.config)
                 /\ \A i \in 1..Len(scanOut.engine.targets) :
                       Abs(dir, scanOut.engine.targets[i])
                           = Abs(cwd, scanOut.engine.targets[i])

\* scan_path has returned from the size loop or after it
SizeGated ==
    /\ Scanned
    /\ scanArgs.tool = "scan_path"
    /\ scanOut.msg \in {"novalid", "scan", "output"}

\* the project directory holds a.go (500 B), b.go (2,100,000 B), c.py (300 B)
\* and no other source file, and is scanned from inside for Go files
SizeLimitScenario ==
    /\ SizeGated
    /\ {Candidates[1], Candidates[2], Candidates[3]} \subseteq fsys
    /\ \A i \in 4..Len(Candidates) : Candidates[i] \notin fsys
    /\ cwd = Chain(1)
    /\ scanArgs.path = <<DOT>>
    /\ scanArgs.language = LGO
    /\ scanOut.statFailed = <<>>

\* C16: of the discovered files the size loop can stat, those larger than
\* 1,048,576 bytes are in skippedFiles and not in validFiles, all others
\* (a file of exactly 1,048,576 bytes too) are in validFiles and not in
\* skippedFiles; a file over the limit does not abort the scan, which runs
\* on validFiles when there are any; and the directory {a.go 500 B, b.go
\* 2,100,000 B, c.py 300 B} scanned for "go" gives the batch <<a.go>>.
C16_SizeGatePartitions ==
    SizeGated =>
        /\ \A i \in 1..Len(scanOut.files) :
              LET file == scanOut.files[i]
                  big == Stat(fsys, cwd, file).size > 1048576
              IN file \notin Range(scanOut.statFailed) =>
                    /\ file \in Range(scanOut.skippedFiles) <=> big
                    /\ file \in Range(scanOut.validFiles) <=> ~big
        /\ ~scanOut.isError
        /\ IF scanOut.validFiles = <<>>
           THEN scanOut.text = "[]" /\ ~scanOut.engine.ran
           ELSE scanOut.engine.ran /\ scanOut.engine.targets = scanOut.validFiles
        /\ SizeLimitScenario =>
              /\ scanOut.files = <<<<AGO>>, <<BGO>>>>
              /\ scanOut.engine.targets = <<<<AGO>>>>

\* the scenario has run: b.go was skipped and the subprocess started on a.go
C16_Witness ==
    /\ SizeLimitScenario
    /\ scanOut.skippedFiles = <<<<BGO>>>>
    /\ scanOut.engine.launched

(***************************************************************************)
(* The tool handlers' results                                              *)
(***************************************************************************)
\* a tool handler has returned
Served == sPc = "done" \/ iPc = "done" \/ scanPc = "done" \/ hPc = "done"

Named(files, name) == {f \in files : f.name = name}

\* this step is a request to this tool, answered
Handles(tool) == hPc = "ready" /\ hPc' = "done" /\ hArgs'.tool = tool

\* C21: a successful add leaves exactly one file <id>.yml in the rule
\* directory, holding the document as given, whether or not the file was
\* there before; every other file is as it was, and the same add repeated
\* changes nothing.
C21_AddCreatesOrOverwrites ==
    [][(Handles("add_or_update_rule") /\ hOut'.msg = "added") =>
          LET name == hArgs'.ruleId \o YML
          IN /\ Named(ruleFiles', name) = {[name |-> name, content |-> hArgs'.ruleYaml]}
             /\ ruleFiles' \ Named(ruleFiles', name) = ruleFiles \ Named(ruleFiles, name)
             /\ (hOut.msg = "added" /\ hArgs = hArgs') => ruleFiles' = ruleFiles]_vars

\* an add has replaced the document of a rule that was there, next to
\* another rule's file
C21_Witness ==
    /\ hPc = "done"
    /\ hArgs.tool = "add_or_update_rule"
    /\ hOut.msg = "added"
    /\ [name |-> <<"n", "o">> \o YML, content |-> <<>>] \in ruleFiles
    /\ hArgs.ruleId = <<"n", "o">>
    /\ \E f \in ruleFiles : f.name # <<"n", "o">> \o YML

\* C22: remove deletes the file and reports success when it exists; when
\* it is absent the outcome is "not found", not an error, and nothing
\* changes; another failure of the removal is an error.
C22_RemoveDistinguishesAbsent ==
    [][(Handles("remove_rule") /\ hArgs'.hasId /\ getRuleDir(sgconfig) = "none") =>
          LET name == hArgs'.ruleId \o YML
          IN \/ /\ hOut' = RuleText("removed")
                /\ Named(ruleFiles, name) # {}
                /\ ruleFiles' = ruleFiles \ Named(ruleFiles, name)
             \/ /\ hOut' = RuleText("notfound")
                /\ Named(ruleFiles, name) = {}
                /\ ruleFiles' = ruleFiles
             \/ /\ hOut' = RuleError("remove")
                /\ ruleFiles' = ruleFiles]_vars

\* the file of a rule has been removed and is gone
C22_Witness ==
    /\ hPc = "done"
    /\ hArgs = RemoveArgs(TRUE, <<"n", "o">>)
    /\ hOut = RuleText("removed")
    /\ IsNotExist(ruleFiles, <<"n", "o">> \o YML)

\* the project root initialize_ast_grep writes to
InitRoot == IF projectRootOverride # <<>> THEN projectRootOverride ELSE cwd

\* C27: initialize_ast_grep leaves an sgconfig.yml that is already there,
\* and the rule files, as they are.
C27_InitializeKeepsExistingConfig ==
    [][(/\ Handles("initialize_ast_grep")
        /\ hOut' = RuleText("initialized")
        /\ Exists(fsys, cwd, Join(InitRoot, SGCONFIG))) =>
          /\ Stat(fsys', cwd, Join(InitRoot, SGCONFIG)) = Stat(fsys, cwd, Join(InitRoot, SGCONFIG))
          /\ sgconfig' = sgconfig
          /\ ruleFiles' = ruleFiles]_vars

(***************************************************************************)
(* Properties of the rule directory                                        *)
(***************************************************************************)
\* C23: when a directory from the start up to "/" holds an sgconfig.yml,
\* getRuleDir returns the first ruleDirs entry joined to the nearest such
\* directory, or a configuration error when the file cannot be read or
\* parsed or the list is empty; it returns not-found when none holds one.
C23_RuleDirInNearestMarkedDirectory ==
    (uPc = "done" /\ uArgs[1] = "getRuleDir") =>
        LET doc == uArgs[2]
        IN IF Marked(StartDir) = {} THEN uOut.err = "notfound"
           ELSE IF doc.state # "parsed" \/ doc.ruleDirs = <<>>
             THEN uOut.err \in {"read", "parse", "noRuleDirs"}
           ELSE /\ uOut.err = "none"
                /\ Abs(cwd, uOut.dir) = Nearest(Marked(StartDir)) \o <<TrimSpace(doc.ruleDirs[1])>>

(***************************************************************************)
(* Properties of scan_path on empty and vanishing file sets                *)
(***************************************************************************)
\* scan_path got as far as calling discoverFiles
ReachedDiscovery ==
    /\ Scanned
    /\ scanArgs.tool = "scan_path"
    /\ scanOut.msg \notin {"path", "noconfig", "extract", "notfound"}

\* the path names nothing and holds none of the characters of a pattern
MissingLiteralPath ==
    /\ ~Exists(fsys, cwd, scanArgs.path)
    /\ \A i \in 1..Len(scanArgs.path) :
          \A j \in 1..Len(scanArgs.path[i]) : scanArgs.path[i][j] \notin {"*", "?", "["}

WalkUnhindered ==
    \A e \in fsys :
        (Len(e.path) > Len(cwd) /\ SubSeq(e.path, 1, Len(cwd)) = cwd) => e.kind # "locked"

Discovered == ReachedDiscovery /\ scanOut.msg # "discover"

\* C25: when discovery gives no file, or every file it gives is over the
\* size limit or cannot be stat'ed, scan_path returns "[]" as a normal
\* result and the subprocess is not started.
C25_EmptyBatchIsEmptyArray ==
    (Discovered /\ \A i \in 1..Len(scanOut.files) :
                      \/ scanOut.files[i] \in Range(scanOut.statFailed)
                      \/ Stat(fsys, cwd, scanOut.files[i]).size > 1048576) =>
        /\ scanOut.text = "[]"
        /\ ~scanOut.isError
        /\ ~scanOut.engine.ran

\* a scan whose only file is over the limit has returned "[]"
C25_Witness ==
    /\ Discovered
    /\ scanOut.files # <<>>
    /\ scanOut.skippedFiles = scanOut.files
    /\ scanOut.text = "[]"
    /\ ~scanOut.engine.ran

\* C28: a discovered file that cannot be stat'ed in the size loop is in
\* neither list; the files after it are still sorted by size into the two
\* lists, the subprocess runs on the valid ones, and the result is no error.
C28_VanishedFileIsDropped ==
    (Discovered /\ scanOut.statFailed # <<>>) =>
        /\ \A i \in 1..Len(scanOut.files) :
              LET file == scanOut.files[i]
                  big == Stat(fsys, cwd, file).size > 1048576
              IN IF file \in Range(scanOut.statFailed)
                 THEN /\ file \notin Range(scanOut.validFiles)
                      /\ file \notin Range(scanOut.skippedFiles)
                 ELSE /\ file \in Range(scanOut.skippedFiles) <=> big
                      /\ file \in Range(scanOut.validFiles) <=> ~big
        /\ ~scanOut.isError
        /\ scanOut.validFiles # <<>> =>
              scanOut.engine.ran /\ scanOut.engine.targets = scanOut.validFiles

\* a.go vanished after discovery and the scan ran on a file found after it
C28_Witness ==
    /\ Discovered
    /\ scanOut.statFailed = <<<<AGO>>>>
    /\ scanOut.files[1] = <<AGO>>
    /\ scanOut.validFiles # <<>>
    /\ scanOut.engine.launched

\* C29: when a scan returns, the temporary file of the extracted binary is
\* gone.
C29_BinaryTempFileRemoved ==
    Scanned => TmpSg \notin tmpDir

(***************************************************************************)
(* Properties of the pattern branch of the discovery                       *)
(***************************************************************************)
StarStarGo == <<<<"*", "*">>, <<"*", ".", "g", "o">>>>

\* C26: for the pattern "**/*.go", discovery returns every regular file at
\* or below the working directory whose name ends in ".go", at any depth.
C26_StarStarMatchesAnyDepth ==
    (uPc = "done" /\ uArgs[1] = StarStarGo /\ uArgs[2] = <<>> /\ uOut.err = "none") =>
        {Abs(cwd, uOut.files[i]) : i \in 1..Len(uOut.files)} =
            {e.path : e \in {f \in FilesBelow(cwd) :
                               MatchChars(StarStarGo[2], f.path[Len(f.path)])}}

(***************************************************************************)
(* Properties of repeated imports                                          *)
(***************************************************************************)
\* this step is an import that succeeds
Imports == iPc = "ready" /\ iPc' = "done" /\ iOut'.msg = "imported"

\* the index entry the import found
ImportedEntry ==
    LET rules == heap'[communityRuleCache'].rules
    IN rules[FindRule(rules, iArgs'.ruleId)]

\* the segment of a path after its last "/"
LastSegment(path) ==
    LET cut == {i \in 1..Len(path) : path[i] = "/"}
        last == IF cut = {} THEN 0 ELSE CHOOSE i \in cut : \A j \in cut : j <= i
    IN SubSeq(path, last + 1, Len(path))

\* C30: a successful import writes one file, named by the last segment of
\* the entry's path, and leaves the other files as they are; an import that
\* follows the import of another id writes to another file.
C30_ImportsOfDifferentIdsKeepApart ==
    [][Imports =>
          /\ iOut'.file = LastSegment(ImportedEntry.path)
          /\ Named(ruleFiles', iOut'.file) = {[name |-> iOut'.file, content |-> iOut'.content]}
          /\ ruleFiles' \ Named(ruleFiles', iOut'.file) = ruleFiles \ Named(ruleFiles, iOut'.file)
          /\ (iOut.msg = "imported" /\ iArgs.ruleId # iArgs'.ruleId) =>
                iOut'.file # iOut.file]_vars

====
